---- MODULE Spec2Model ----
(***************************************************************************)
(* Model of the LRU cache with per-entry TTL of pkg/cache (LRUWithTTL) and *)
(* of its cleanup daemon.  Every cache method runs its whole body under    *)
(* c.mu, so one method call is one atomic step taken at the moment it      *)
(* holds the lock; Set and SetWithTTL read the clock before they take the  *)
(* lock, which is modelled by the clock reading t0 <= now they carry.      *)
(* Time is counted in whole seconds.                                       *)
(*                                                                         *)
(* Spec       the methods as whole calls, with at most MaxSweepers cleanup *)
(*            goroutines                                                   *)
(* DaemonSpec the life cycle of the cleanup goroutines (start, stop, close,*)
(*            tick, pass, exit) under fair scheduling                      *)
(* ConcSpec   the methods statement by statement, c.mu explicit, called by *)
(*            NumProcs goroutines                                          *)
(* BuildSpec  NewLRUTTL with valid and invalid option values, and the      *)
(*            calls on the cache it returns                                *)
(* ProxySpec  pkg/proxy: NumReqs requests through ServeHTTP, side by side  *)
(*            or one after the other, against the cache, an upstream that  *)
(*            answers or fails, and the per-request flush goroutine        *)
(* LockSpec   the methods call by call with the wait for c.mu explicit,    *)
(*            next to a sweeper goroutine, under fair scheduling           *)
(* TtlSpec    the expiry SetWithTTL computes, in fixed-width arithmetic    *)
(***************************************************************************)
EXTENDS Integers, Sequences, FiniteSets, TLC

\* ------------------------------------------------------------------ bounds
NumKeys == 3
NumValues == 2
MaxCapacity == 2
MaxTTL == 1
MaxTime == 3
MaxSweepers == 1
MaxGoroutines == 2
NumProcs == 2
MaxImport == 2
NumReqs == 2
NumURLs == 2
MaxStale == 1

Keys == 1..NumKeys
Values == 1..NumValues
Capacities == 1..MaxCapacity
TTLs == 0..MaxTTL
\* the ttlSeconds a caller may pass: any int, a negative one included
TTLArgs == TTLs \cup {-1}
Times == 1..MaxTime

\* `var zero V`: the value a miss returns
ZeroValue == 0
\* time.Time{}: the "no expiry" sentinel (the clock itself never reads it)
ZeroTime == 0

VARIABLES
    capacity,        \* c.capacity
    defaultTTL,      \* c.defaultTTL, in seconds
    ll,              \* c.ll: the list elements, front first (element handles)
    items,           \* c.items: key -> element handle
    elems,           \* the heap: element handle -> *ttlEntry (key, value, expiresAt)
    cleanupRunning,  \* c.cleanupRunning
    daemons,         \* the cleanup goroutines, counted by where they stand
    now,             \* the wall clock, time.Now()
    last,            \* the call that just returned: its arguments, its result and what it did
    touched,         \* history: the keys present, most recently touched first
    mu,              \* c.mu, the sync.RWMutex: who holds it
    procs,           \* the calls that are inside a method, statement by statement
    attached,        \* p.cache != nil: the proxy was built WithCache
    reqs             \* the requests ServeHTTP handles: where each stands, what it saw and wrote

vars == <<capacity, defaultTTL, ll, items, elems, cleanupRunning, daemons, now, last, touched,
          mu, procs, attached, reqs>>
\* the calls in progress; a step that is a whole call leaves none in progress
calls == <<mu, procs>>
web == <<attached, reqs>>
config == <<capacity, defaultTTL>>
data == <<ll, items, elems>>
daemon == <<cleanupRunning, daemons>>

\* the goroutines that call the cache concurrently
Procs == 1..NumProcs
\* ------------------------------------------------------------ call records
None == [op |-> "none"]
\* no key: the key of a nil element
NoKey == 0

\* the frame of a call in progress: where it stands (pc), its arguments and its
\* locals (element, entry fields read so far, what is left of a loop, the result)
Frame(pc, op, key, value, expiresAt) ==
    [pc |-> pc, op |-> op, key |-> key, value |-> value, expiresAt |-> expiresAt,
     element |-> 0, rest |-> <<>>, out |-> <<>>, ok |-> FALSE]
\* a goroutine that is in no method of the cache
IdleFrame == Frame("idle", "none", NoKey, ZeroValue, ZeroTime)

\* (value, ok) of Get; expired tells that the call found the entry expired
GetRet(key, value, ok, expired) ==
    [op |-> "Get", key |-> key, value |-> value, ok |-> ok, expired |-> expired]
PeekRet(key, value, ok) == [op |-> "Get_Exclusive", key |-> key, value |-> value, ok |-> ok]
\* a store (setWithTTLInternal): its arguments, whether the key was in the map,
\* and the key it evicted (NoKey: none)
SetRet(key, value, expiresAt, existed, evicted) ==
    [op |-> "set", key |-> key, value |-> value, expiresAt |-> expiresAt,
     existed |-> existed, evicted |-> evicted]
DeleteRet(key, existed) == [op |-> "Delete", key |-> key, existed |-> existed]
\* a call that panicked instead of returning
PanicRet(call, key, ttlSeconds) ==
    [op |-> "panic", call |-> call, key |-> key, ttlSeconds |-> ttlSeconds]
\* a call that returns nothing: StartCleanupDaemon, StopCleanupDaemon, Close
VoidRet(call) == [op |-> call]

\* --------------------------------------------------------- container/list
Range(s) == {s[i] : i \in 1..Len(s)}

\* l.Remove(e): unlinks e when it is an element of l
ListRemove(l, e) == SelectSeq(l, LAMBDA x : x # e)

\* (mutant) the element stays where it is
MoveToFront_stays(l, e) == l

\* l.MoveToFront(e): no-op when e is not an element of l
MoveToFront(l, e) == IF e \in Range(l) THEN <<e>> \o ListRemove(l, e) ELSE l

\* l.PushFront(v): a new element, in front
PushFront(l, e) == <<e>> \o l

\* (mutant) the front element taken for the tail
Back_front(l) == IF Len(l) = 0 THEN 0 ELSE l[1]

\* l.Back(): the last element, nil (0) for an empty list
Back(l) == IF Len(l) = 0 THEN 0 ELSE l[Len(l)]

\* (mutant) the key stays in the map
MapDelete_stays(m, k) == m

\* delete(m, k)
MapDelete(m, k) == [x \in (DOMAIN m) \ {k} |-> m[x]]

\* m[k] = e
MapPut(m, k, e) == [x \in (DOMAIN m) \cup {k} |-> IF x = k THEN e ELSE m[x]]

\* the allocator: a handle no live element carries
NewElement(h) == CHOOSE i \in 1..(Cardinality(DOMAIN h) + 1) : i \notin DOMAIN h

\* the collector: an element neither the list nor the map refers to is gone
Collect(h, l, m) == [e \in (DOMAIN h) \cap (Range(l) \cup {m[k] : k \in DOMAIN m}) |-> h[e]]

\* ------------------------------------------------------------------ expiry
\* (mutant) an entry counted as expired at the very instant of its expiry
isExpired_at_instant(entry) ==
    IF entry.expiresAt = ZeroTime THEN FALSE ELSE now - entry.expiresAt >= 0

\* (mutant) the zero time compared with the clock like any other time
isExpired_noSentinel(entry) == now - entry.expiresAt > 0

\* isExpired: zero time means no expiry, else time.Since(expiresAt) > 0
isExpired(entry) ==
    IF entry.expiresAt = ZeroTime THEN FALSE ELSE now - entry.expiresAt > 0

\* ----------------------------------------------------------------- history
\* the keys still in the map, in the order of their last touch, after a step
\* that touched the keys of the sequence t (<<>> for a step that touches none)
Touch(t, m) == t \o SelectSeq(touched, LAMBDA k : k \in DOMAIN m /\ k \notin Range(t))

\* ------------------------------------------------------------------- reads
Get(key) ==
    /\ IF key \notin DOMAIN items
       THEN /\ last' = GetRet(key, ZeroValue, FALSE, FALSE)
            /\ UNCHANGED <<data, touched>>
       ELSE LET element == items[key]
                entry == elems[element]
            IN IF isExpired(entry)
               THEN /\ ll' = ListRemove(ll, element)
                    /\ items' = MapDelete(items, key)
                    /\ elems' = Collect(elems, ll', items')
                    /\ last' = GetRet(key, ZeroValue, FALSE, TRUE)
                    /\ touched' = Touch(<<>>, items')
               ELSE /\ ll' = MoveToFront(ll, element)
                    /\ last' = GetRet(key, entry.value, TRUE, FALSE)
                    /\ touched' = Touch(<<key>>, items)
                    /\ UNCHANGED <<items, elems>>
    /\ UNCHANGED <<config, daemon, now>>

\* (mutant) a peek that looks at the expiry, as Get does
Get_Exclusive_expiryAware(key) ==
    /\ last' = IF key \in DOMAIN items /\ ~isExpired(elems[items[key]])
               THEN PeekRet(key, elems[items[key]].value, TRUE)
               ELSE PeekRet(key, ZeroValue, FALSE)
    /\ UNCHANGED <<config, data, daemon, now, touched>>

Get_Exclusive(key) ==
    /\ last' = IF key \notin DOMAIN items
               THEN PeekRet(key, ZeroValue, FALSE)
               ELSE PeekRet(key, elems[items[key]].value, TRUE)
    /\ UNCHANGED <<config, data, daemon, now, touched>>

LenOp ==
    /\ last' = [op |-> "Len", n |-> Cardinality(DOMAIN items)]
    /\ UNCHANGED <<config, data, daemon, now, touched>>

GetAll ==
    /\ last' = [op |-> "GetAll", all |-> [k \in DOMAIN items |-> elems[items[k]].value]]
    /\ UNCHANGED <<config, data, daemon, now, touched>>

\* ------------------------------------------------------------------ writes
\* (mutant) a Delete that unlinks the element and leaves the key in the map
Delete_keepsMap(key) ==
    /\ IF key \notin DOMAIN items
       THEN UNCHANGED <<data, touched>>
       ELSE /\ ll' = ListRemove(ll, items[key])
            /\ UNCHANGED <<items, elems, touched>>
    /\ last' = DeleteRet(key, key \in DOMAIN items)
    /\ UNCHANGED <<config, daemon, now>>

Delete(key) ==
    /\ IF key \notin DOMAIN items
       THEN UNCHANGED <<data, touched>>
       ELSE /\ ll' = ListRemove(ll, items[key])
            /\ items' = MapDelete(items, key)
            /\ elems' = Collect(elems, ll', items')
            /\ touched' = Touch(<<>>, items')
    /\ last' = DeleteRet(key, key \in DOMAIN items)
    /\ UNCHANGED <<config, daemon, now>>

\* (mutant) the fullness test off by one
IsFull_off_by_one == Cardinality(DOMAIN items) > capacity

\* `len(c.items) >= c.capacity`
IsFull == Cardinality(DOMAIN items) >= capacity

\* the eviction branch of setWithTTLInternal: the list and the map after it, and
\* the key it evicted
Evicted ==
    IF IsFull
    THEN LET tail == Back(ll)
         IN [l |-> ListRemove(ll, tail),
             m |-> MapDelete(items, elems[tail].key),
             key |-> elems[tail].key]
    ELSE [l |-> ll, m |-> items, key |-> NoKey]

\* (mutant) an update that writes the new expiry and forgets the value
Overwrite_keepValue(h, e, value, expiresAt) == [h EXCEPT ![e].expiresAt = expiresAt]

\* (mutant) an update that writes the new value and forgets the expiry
Overwrite_keepExpiry(h, e, value, expiresAt) == [h EXCEPT ![e].value = value]

\* `entry.value = value; entry.expiresAt = expiresAt` on the entry of element e
Overwrite(h, e, value, expiresAt) ==
    [h EXCEPT ![e].value = value, ![e].expiresAt = expiresAt]

setWithTTLInternal(key, value, expiresAt) ==
    /\ IF key \in DOMAIN items
       THEN /\ elems' = Overwrite(elems, items[key], value, expiresAt)
            /\ ll' = MoveToFront(ll, items[key])
            /\ last' = SetRet(key, value, expiresAt, TRUE, NoKey)
            /\ UNCHANGED items
       ELSE IF IsFull /\ Back(ll) = 0
            THEN \* panic("capacity is 0"): the list is empty where a tail is needed
                 /\ last' = PanicRet("setWithTTLInternal", key, 0)
                 /\ UNCHANGED data
            ELSE LET ev == Evicted
                     h == Collect(elems, ev.l, ev.m)
                     element == NewElement(h)
                 IN /\ ll' = PushFront(ev.l, element)
                    /\ items' = MapPut(ev.m, key, element)
                    /\ elems' = [e \in (DOMAIN h) \cup {element} |->
                                   IF e = element
                                   THEN [key |-> key, value |-> value, expiresAt |-> expiresAt]
                                   ELSE h[e]]
                    /\ last' = SetRet(key, value, expiresAt, FALSE, ev.key)
    /\ touched' = IF last'.op = "panic" THEN touched ELSE Touch(<<key>>, items')
    /\ UNCHANGED <<config, daemon, now>>

\* the expiry Set computes: time.Now().Add(c.defaultTTL), with the clock read at t0
SetExpiry(t0) == t0 + defaultTTL

Set(key, value, t0) == setWithTTLInternal(key, value, SetExpiry(t0))

\* (mutant) the per-entry TTL added on top of the default TTL
TTLExpiry_onTopOfDefault(ttlSeconds, t0) ==
    IF ttlSeconds > 0 THEN t0 + defaultTTL + ttlSeconds ELSE ZeroTime

\* the expiry SetWithTTL computes for ttlSeconds >= 0
TTLExpiry(ttlSeconds, t0) == IF ttlSeconds > 0 THEN t0 + ttlSeconds ELSE ZeroTime

\* (mutant) the ttlSeconds test made after the store
SetWithTTL_storesFirst(key, value, ttlSeconds, t0) ==
    IF ttlSeconds >= 0
    THEN setWithTTLInternal(key, value, TTLExpiry(ttlSeconds, t0))
    ELSE /\ IF key \in DOMAIN items
            THEN /\ elems' = Overwrite(elems, items[key], value, ZeroTime)
                 /\ ll' = MoveToFront(ll, items[key])
                 /\ touched' = Touch(<<key>>, items)
            ELSE UNCHANGED <<ll, elems, touched>>
         /\ last' = PanicRet("SetWithTTL", key, ttlSeconds)
         /\ UNCHANGED <<config, items, daemon, now>>

\* panic("ttlSeconds must be >= 0") is raised before setWithTTLInternal is called,
\* that is before c.mu is taken
SetWithTTL(key, value, ttlSeconds, t0) ==
    IF ttlSeconds >= 0
    THEN setWithTTLInternal(key, value, TTLExpiry(ttlSeconds, t0))
    ELSE /\ last' = PanicRet("SetWithTTL", key, ttlSeconds)
         /\ UNCHANGED <<config, data, daemon, now, touched>>

\* ------------------------------------------------------------------ daemon
\* (mutant) the walk unlinks the expired elements and leaves their keys in the map
RECURSIVE CleanupWalk_keepMap(_, _, _)
CleanupWalk_keepMap(l, m, rest) ==
    IF rest = <<>> THEN [l |-> l, m |-> m]
    ELSE IF isExpired(elems[Head(rest)])
         THEN CleanupWalk_keepMap(ListRemove(l, Head(rest)), m, Tail(rest))
         ELSE CleanupWalk_keepMap(l, m, Tail(rest))

\* (mutant) the walk ends at the first entry that has not expired
RECURSIVE CleanupWalk_stopsAtLive(_, _, _)
CleanupWalk_stopsAtLive(l, m, rest) ==
    IF rest = <<>> THEN [l |-> l, m |-> m]
    ELSE IF isExpired(elems[Head(rest)])
         THEN CleanupWalk_stopsAtLive(ListRemove(l, Head(rest)),
                                      MapDelete(m, elems[Head(rest)].key), Tail(rest))
         ELSE [l |-> l, m |-> m]

\* the walk of cleanupExpired: current runs over the elements the list held when
\* the walk began (rest), l and m are the list and the map as the walk leaves them
RECURSIVE CleanupWalk(_, _, _)
CleanupWalk(l, m, rest) ==
    IF rest = <<>> THEN [l |-> l, m |-> m]
    ELSE LET current == Head(rest)
             entry == elems[current]
         IN IF isExpired(entry)
            THEN CleanupWalk(ListRemove(l, current), MapDelete(m, entry.key), Tail(rest))
            ELSE CleanupWalk(l, m, Tail(rest))

cleanupExpired ==
    LET w == CleanupWalk(ll, items, ll)
    IN /\ ll' = w.l
       /\ items' = w.m
       /\ elems' = Collect(elems, w.l, w.m)
       /\ touched' = Touch(<<>>, w.m)
       /\ last' = [op |-> "cleanupExpired", removed |-> (DOMAIN items) \ (DOMAIN w.m)]

NumDaemons == daemons.select + daemons.closed + daemons.sweep

\* `go func() {...}()`: one more goroutine, whatever c.cleanupRunning says
Spawn == [daemons EXCEPT !.select = @ + 1]

StartCleanupDaemon ==
    /\ daemons' = Spawn
    /\ last' = VoidRet("StartCleanupDaemon")
    /\ UNCHANGED <<config, data, cleanupRunning, now, touched>>

\* (mutant) a stop that also drops the entries
StopBody_clears ==
    /\ IF cleanupRunning
       THEN /\ daemons' = [daemons EXCEPT !.select = 0, !.closed = @ + daemons.select]
            /\ cleanupRunning' = FALSE
       ELSE UNCHANGED daemon
    /\ ll' = <<>>
    /\ items' = <<>>
    /\ elems' = <<>>
    /\ touched' = <<>>
    /\ UNCHANGED <<config, now>>

\* (mutant) a stop that does not look at c.cleanupRunning
StopBody_noFlagCheck ==
    /\ daemons' = [daemons EXCEPT !.select = 0, !.closed = @ + daemons.select]
    /\ cleanupRunning' = FALSE
    /\ UNCHANGED <<config, data, now, touched>>

\* close(c.cleanupStop) reaches the goroutines that wait in select on that channel;
\* c.cleanupStop is then a new, open channel
StopBody ==
    /\ IF cleanupRunning
       THEN /\ daemons' = [daemons EXCEPT !.select = 0, !.closed = @ + daemons.select]
            /\ cleanupRunning' = FALSE
       ELSE UNCHANGED daemon
    /\ UNCHANGED <<config, data, now, touched>>

StopCleanupDaemon == StopBody /\ last' = VoidRet("StopCleanupDaemon")

Close == StopBody /\ last' = VoidRet("Close")

\* a goroutine in select takes the ticker case
DaemonTick ==
    /\ \/ /\ daemons.select > 0
          /\ daemons' = [daemons EXCEPT !.select = @ - 1, !.sweep = @ + 1]
       \/ /\ daemons.closed > 0
          /\ daemons' = [daemons EXCEPT !.closed = @ - 1, !.sweep = @ + 1]
    /\ UNCHANGED <<config, data, cleanupRunning, now, last, touched>>

\* it runs cleanupExpired and comes back to select, on the current c.cleanupStop
DaemonSweep ==
    /\ daemons.sweep > 0
    /\ cleanupExpired
    /\ daemons' = [daemons EXCEPT !.sweep = @ - 1, !.select = @ + 1]
    /\ UNCHANGED <<config, cleanupRunning, now>>

\* a goroutine in select whose stop channel was closed returns
DaemonExit ==
    /\ daemons.closed > 0
    /\ daemons' = [daemons EXCEPT !.closed = @ - 1]
    /\ UNCHANGED <<config, data, cleanupRunning, now, last, touched>>

\* ------------------------------------------------------------------- clock
Tick ==
    /\ now < MaxTime
    /\ now' = now + 1
    /\ UNCHANGED <<config, data, daemon, last, touched>>

\* ----------------------------------------------------------- specification
\* NewLRUTTL with WithCapacity, WithDefaultTTL and WithCleanupStart
\* ------------------------------------------------------------ HTTP messages
\* http.Header: canonical field name -> the values, in the order they were added.
\* The field names as they come over the wire, and textproto's canonical form
\* under which net/http files them and under which Get, Set, Add and Del look.
CanonicalHeaderKey(name) ==
    CASE name \in {"connection", "Connection", "CONNECTION"} -> "Connection"
      [] name \in {"keep-alive", "Keep-Alive", "KEEP-ALIVE"} -> "Keep-Alive"
      [] name \in {"proxy-connection", "Proxy-Connection"} -> "Proxy-Connection"
      [] name \in {"proxy-authenticate", "Proxy-Authenticate"} -> "Proxy-Authenticate"
      [] name \in {"proxy-authorization", "Proxy-Authorization"} -> "Proxy-Authorization"
      [] name \in {"te", "Te", "TE"} -> "Te"
      [] name \in {"trailer", "Trailer"} -> "Trailer"
      [] name \in {"transfer-encoding", "Transfer-Encoding"} -> "Transfer-Encoding"
      [] name \in {"upgrade", "Upgrade", "UPGRADE"} -> "Upgrade"
      [] name \in {"cache-control", "Cache-Control"} -> "Cache-Control"
      [] name \in {"content-type", "Content-Type"} -> "Content-Type"
      [] name \in {"set-cookie", "Set-Cookie"} -> "Set-Cookie"
      [] name \in {"accept", "Accept"} -> "Accept"
      [] name \in {"expires", "Expires"} -> "Expires"
      [] name \in {"x-forwarded-for", "X-Forwarded-For"} -> "X-Forwarded-For"
      [] OTHER -> name

NoHeader == <<>>

HeaderAdd(h, name, value) ==
    LET key == CanonicalHeaderKey(name)
    IN [n \in (DOMAIN h) \cup {key} |->
          IF n = key THEN (IF key \in DOMAIN h THEN Append(h[key], value) ELSE <<value>>)
          ELSE h[n]]

HeaderSet(h, name, value) ==
    LET key == CanonicalHeaderKey(name)
    IN [n \in (DOMAIN h) \cup {key} |-> IF n = key THEN <<value>> ELSE h[n]]

HeaderDel(h, name) == [n \in (DOMAIN h) \ {CanonicalHeaderKey(name)} |-> h[n]]

\* the first value filed under the name, "" when there is none
HeaderGet(h, name) ==
    LET key == CanonicalHeaderKey(name)
    IN IF key \in DOMAIN h /\ Len(h[key]) > 0 THEN h[key][1] ELSE ""

\* the header net/http hands to the handler for the field lines of a message
RECURSIVE ReadHeader(_)
ReadHeader(lines) ==
    IF lines = <<>> THEN NoHeader
    ELSE LET line == lines[Len(lines)]
         IN HeaderAdd(ReadHeader(SubSeq(lines, 1, Len(lines) - 1)), line[1], line[2])

\* for key, values := range h { for _, value := range values { w.Header().Add(key, value) } }
RECURSIVE AddValues(_, _, _)
AddValues(w, key, values) ==
    IF values = <<>> THEN w
    ELSE AddValues(HeaderAdd(w, key, Head(values)), key, Tail(values))

RECURSIVE CopyKeys(_, _, _)
CopyKeys(w, h, keys) ==
    IF keys = {} THEN w
    ELSE LET key == CHOOSE k \in keys : TRUE
         IN CopyKeys(AddValues(w, key, h[key]), h, keys \ {key})

CopyHeader(w, h) == CopyKeys(w, h, DOMAIN h)

hopByHopHeaders ==
    <<"Connection", "Proxy-Connection", "Keep-Alive", "Proxy-Authenticate",
      "Proxy-Authorization", "Te", "Trailer", "Transfer-Encoding", "Upgrade">>

RECURSIVE DelAll(_, _)
DelAll(h, names) ==
    IF names = <<>> THEN h ELSE DelAll(HeaderDel(h, Head(names)), Tail(names))

removeHopByHopHeaders_connectionOnly(header) == HeaderDel(header, "Connection")
removeHopByHopHeaders(header) == DelAll(header, hopByHopHeaders)


\* Cache-Control texts, and what strings.ToLower, strings.Split(",") and
\* strings.TrimSpace make of them: the directives in order, each with the text
\* before its "=" (eq tells whether it has one) and the text after it
Directive(name, eq, arg) == [name |-> name, eq |-> eq, arg |-> arg]
Directives(cacheControl) ==
    CASE cacheControl = "max-age=1" -> <<Directive("max-age", TRUE, "1")>>
      [] cacheControl = "no-cache, max-age=0, S-MaxAge=2" ->
            <<Directive("no-cache", FALSE, ""), Directive("max-age", TRUE, "0"),
              Directive("s-maxage", TRUE, "2")>>
      [] cacheControl = "Max-Age=2, s-maxage=1" ->
            <<Directive("max-age", TRUE, "2"), Directive("s-maxage", TRUE, "1")>>
      [] cacheControl = "max-age=16" -> <<Directive("max-age", TRUE, "16")>>
      [] cacheControl = "public, s-maxage=3" ->
            <<Directive("public", FALSE, ""), Directive("s-maxage", TRUE, "3")>>
      [] cacheControl = "max-age=x" -> <<Directive("max-age", TRUE, "x")>>
      [] cacheControl = "max-age=-1" -> <<Directive("max-age", TRUE, "-1")>>
      [] cacheControl = "max-age" -> <<Directive("max-age", FALSE, "")>>
      [] cacheControl = "no-transform" -> <<Directive("no-transform", FALSE, "")>>
      [] OTHER -> <<Directive(cacheControl, FALSE, "")>>

CacheControls ==
    {"", "max-age=1", "no-cache, max-age=0, S-MaxAge=2", "Max-Age=2, s-maxage=1",
     "max-age=x", "max-age=-1", "max-age", "no-transform", "max-age=16",
     "public, s-maxage=3"}

\* strconv.Atoi
Atoi(text) ==
    CASE text = "0" -> [n |-> 0, err |-> FALSE]
      [] text = "1" -> [n |-> 1, err |-> FALSE]
      [] text = "2" -> [n |-> 2, err |-> FALSE]
      [] text = "-1" -> [n |-> -1, err |-> FALSE]
      [] text = "3" -> [n |-> 3, err |-> FALSE]
      [] text = "16" -> [n |-> 16, err |-> FALSE]
      [] OTHER -> [n |-> 0, err |-> TRUE]

\* the value one directive gives, 0 when it gives none
MaxAgeOf(directive) ==
    LET maxAge == Atoi(directive.arg)
    IN IF directive.eq /\ directive.name \in {"max-age", "s-maxage"}
          /\ ~maxAge.err /\ maxAge.n > 0
       THEN maxAge.n
       ELSE 0

RECURSIVE ScanDirectives(_)
ScanDirectives(directives) ==
    IF directives = <<>> THEN 0
    ELSE IF MaxAgeOf(Head(directives)) > 0 THEN MaxAgeOf(Head(directives))
    ELSE ScanDirectives(Tail(directives))

parseMaxAge(cacheControl) == ScanDirectives(Directives(cacheControl))

\* net.SplitHostPort(req.RemoteAddr): the host, or an error
SplitHostPort(remoteAddr) ==
    CASE remoteAddr = "10.0.0.1:5000" -> [host |-> "10.0.0.1", err |-> FALSE]
      [] OTHER -> [host |-> "", err |-> TRUE]

\* the upstream's answers: status, header field lines as sent, body
Responses ==
    {[status |-> 200, body |-> "a",
      lines |-> << <<"cache-control", "max-age=1">>, <<"connection", "close">>,
                   <<"Content-Type", "text/plain">> >>],
     [status |-> 404, body |-> "b",
      lines |-> << <<"KEEP-ALIVE", "timeout=5">>, <<"Set-Cookie", "a=1">>,
                   <<"set-cookie", "b=2">> >>],
     [status |-> 200, body |-> "c",
      lines |-> << <<"Cache-Control", "no-transform">>, <<"Cache-Control", "max-age=1">> >>],
     [status |-> 200, body |-> "d",
      lines |-> << <<"expires", "Thu, 01 Jan 1970 00:00:03 GMT">> >>]}
NoResponse == [status |-> 0, body |-> "", lines |-> <<>>]

Reqs == 1..NumReqs
URLs == 1..NumURLs

\* the inbound requests: method, URL, header field lines as sent, and the
\* connection's RemoteAddr
PlainLines == <<>>
FullLines ==
    << <<"upgrade", "h2c">>, <<"Proxy-Authorization", "Basic x">>, <<"TE", "trailers">>,
       <<"Accept", "*/*">>, <<"X-Forwarded-For", "6.6.6.6">> >>
ForwardedLines == << <<"x-forwarded-for", "6.6.6.6">>, <<"X-Forwarded-For", "7.7.7.7">> >>
Inbound ==
    {[method |-> "GET", url |-> 1, lines |-> FullLines, remote |-> "@"],
     [method |-> "GET", url |-> NumURLs, lines |-> PlainLines, remote |-> "10.0.0.1:5000"],
     [method |-> "POST", url |-> 1, lines |-> ForwardedLines, remote |-> "10.0.0.1:5000"],
     [method |-> "POST", url |-> NumURLs, lines |-> FullLines, remote |-> "@"]}

\* *CachedResponse
NoCached == [Status |-> 0, Header |-> NoHeader, Body |-> "", CachedAt |-> ZeroTime]

\* a request that has not arrived
NewRequest ==
    [pc |-> "new", method |-> "", url |-> NoKey, lines |-> <<>>, remote |-> "",
     after |-> {},            \* the requests that had finished when this one arrived
     found |-> 0,             \* the request whose CachedResponse the lookup returned
     cancelled |-> FALSE,     \* req.Context() is done
     upstream |-> 0,          \* how often p.client.Do was called
     out |-> NoHeader,        \* outReq.Header
     resp |-> NoResponse,     \* what client.Do returned
     header |-> NoHeader,     \* w.Header()
     committed |-> FALSE,     \* the response head went out
     status |-> 0,            \* the status in the head that went out
     sent |-> NoHeader,       \* the header in the head that went out
     body |-> "",             \* the body that went out
     cached |-> NoCached,     \* the CachedResponse this request built
     stored |-> FALSE,        \* it was handed to the cache
     flusher |-> "none",      \* the goroutine of lines 129-136
     flushes |-> 0,           \* its calls of Flush
     lateFlush |-> FALSE]     \* ... one of them after ServeHTTP returned


Init ==
    /\ capacity \in Capacities
    /\ defaultTTL \in TTLs
    /\ ll = <<>>
    /\ items = <<>>
    /\ elems = <<>>
    /\ cleanupRunning \in BOOLEAN
    /\ daemons = [select |-> IF cleanupRunning THEN 1 ELSE 0, closed |-> 0, sweep |-> 0]
    /\ now = 1
    /\ last = None
    /\ touched = <<>>
    /\ mu = [writer |-> 0, readers |-> {}]
    /\ procs = [p \in Procs |-> IdleFrame]
    /\ attached = TRUE
    /\ reqs = [r \in Reqs |-> NewRequest]

\* what time.Now() may have returned to a call that takes the lock now: the clock
\* is read before c.mu is acquired, so the reading can be up to MaxStale old
ClockReads == {t \in Times : now - MaxStale <= t /\ t <= now}

\* last only records the call that just returned, for the properties: the record
\* is dropped before the next step is shown, so every sequence of calls stays
\* possible, with the results taken one by one
Idle == last = None

Return ==
    /\ ~Idle
    /\ last' = None
    /\ UNCHANGED <<config, data, daemon, now, touched, calls, web>>

GetStep == Idle /\ UNCHANGED <<calls, web>> /\ \E k \in Keys : Get(k)
PeekStep == Idle /\ UNCHANGED <<calls, web>> /\ \E k \in Keys : Get_Exclusive(k)
LenStep == Idle /\ UNCHANGED <<calls, web>> /\ LenOp
GetAllStep == Idle /\ UNCHANGED <<calls, web>> /\ GetAll
DeleteStep == Idle /\ UNCHANGED <<calls, web>> /\ \E k \in Keys : Delete(k)
SetStep == Idle /\ UNCHANGED <<calls, web>> /\ \E k \in Keys, v \in Values, t0 \in ClockReads : Set(k, v, t0)
SetWithTTLStep ==
    /\ Idle
    /\ UNCHANGED <<calls, web>>
    /\ \E k \in Keys, v \in Values, ttl \in TTLArgs :
          \E t0 \in (IF ttl > 0 THEN ClockReads ELSE {now}) : SetWithTTL(k, v, ttl, t0)
\* the calls of StartCleanupDaemon are counted out: at most MaxSweepers goroutines
StartStep == Idle /\ UNCHANGED <<calls, web>> /\ NumDaemons < MaxSweepers /\ StartCleanupDaemon
StopStep == Idle /\ UNCHANGED <<calls, web>> /\ StopCleanupDaemon
CloseStep == Idle /\ UNCHANGED <<calls, web>> /\ Close
DaemonTickStep == Idle /\ UNCHANGED <<calls, web>> /\ DaemonTick
DaemonSweepStep == Idle /\ UNCHANGED <<calls, web>> /\ DaemonSweep
DaemonExitStep == Idle /\ UNCHANGED <<calls, web>> /\ DaemonExit
TickStep == Idle /\ UNCHANGED <<calls, web>> /\ Tick

Next ==
    \/ GetStep
    \/ PeekStep
    \/ LenStep
    \/ GetAllStep
    \/ DeleteStep
    \/ SetStep
    \/ SetWithTTLStep
    \/ StartStep
    \/ StopStep
    \/ CloseStep
    \/ DaemonTickStep
    \/ DaemonSweepStep
    \/ DaemonExitStep
    \/ TickStep
    \/ Return

Spec == Init /\ [][Next]_vars

\* ---------------------------------------------------- the daemon's life cycle
\* The cache as its cleanup goroutines see it: entries are stored with a TTL and
\* peeked at, the clock advances, and StartCleanupDaemon may be called while a
\* goroutine is alive (up to MaxGoroutines of them).  What is stored does not
\* matter to the goroutines, only when it expires: the stores carry one value and
\* a clock reading taken at the lock.
RestartStep == Idle /\ UNCHANGED <<calls, web>> /\ NumDaemons < MaxGoroutines /\ StartCleanupDaemon

StoreStep ==
    /\ Idle
    /\ UNCHANGED <<calls, web>>
    /\ \E k \in Keys, ttl \in TTLs : SetWithTTL(k, CHOOSE v \in Values : TRUE, ttl, now)

DaemonNext ==
    \/ RestartStep
    \/ StopStep
    \/ CloseStep
    \/ DaemonTickStep
    \/ DaemonSweepStep
    \/ DaemonExitStep
    \/ TickStep
    \/ StoreStep
    \/ PeekStep
    \/ Return

\* the scheduler runs every goroutine that can run, the ticker keeps firing, a
\* goroutine that waits for c.mu gets it, and a select whose stop channel is
\* closed does not lose against the ticker forever; calls return
Fairness ==
    /\ WF_vars(Return)
    /\ SF_vars(DaemonTickStep)
    /\ SF_vars(DaemonSweepStep)
    /\ SF_vars(DaemonExitStep)

DaemonSpec == Init /\ [][DaemonNext]_vars /\ Fairness

\* ------------------------------------------------------------- construction
\* NewLRUTTL called with WithCapacity(c), WithDefaultTTL(d), WithCleanupInterval(i),
\* WithCleanupStart(start) and WithItemsMap(m), any of the numbers possibly invalid.
\* The record of the call: its arguments, the interval the cache got, and whether
\* a cache came back (ok) or an option panicked.
BuildRet(c, d, i, start, imported, ok) ==
    [op |-> "NewLRUTTL", capacity |-> c, defaultTTL |-> d, cleanupInterval |-> i,
     start |-> start, imported |-> imported, ok |-> ok]

\* the arguments the options accept: capacity > 0, ttlSeconds >= 0, intervalSeconds > 0
OptionsAccept(c, d, i) == c > 0 /\ d >= 0 /\ i > 0

\* the items maps given to WithItemsMap: the first n keys, each with an element of
\* some other list that holds the first value and no expiry
ImportMaps == {[k \in 1..n |-> k] : n \in 0..MaxImport}
ImportedEntries(m) ==
    [e \in {m[k] : k \in DOMAIN m} |-> [key |-> e, value |-> 1, expiresAt |-> ZeroTime]]

BuildInit ==
    \E c \in -1..MaxCapacity, d \in -1..MaxTTL, i \in 0..1, start \in BOOLEAN, m \in ImportMaps :
        /\ now = 1
        /\ touched = <<>>
        /\ mu = [writer |-> 0, readers |-> {}]
        /\ procs = [p \in Procs |-> IdleFrame]
        /\ attached = TRUE
        /\ reqs = [r \in Reqs |-> NewRequest]
        /\ ll = <<>>
        /\ IF OptionsAccept(c, d, i)
           THEN /\ capacity = c
                /\ defaultTTL = d
                /\ items = m
                /\ elems = ImportedEntries(m)
                /\ cleanupRunning = start
                /\ daemons = [select |-> IF start THEN 1 ELSE 0, closed |-> 0, sweep |-> 0]
                /\ last = BuildRet(c, d, i, start, DOMAIN m, TRUE)
           ELSE \* an option panics: no cache comes back, StartCleanupDaemon is not reached
                /\ capacity = 0
                /\ defaultTTL = 0
                /\ items = <<>>
                /\ elems = <<>>
                /\ cleanupRunning = FALSE
                /\ daemons = [select |-> 0, closed |-> 0, sweep |-> 0]
                /\ last = BuildRet(c, d, i, start, DOMAIN m, FALSE)

\* a cache came back from NewLRUTTL: there is an object to call
Built == ~(last.op = "NewLRUTTL" /\ ~last.ok)

BuildReturn == Built /\ Return

BuildNext ==
    \/ GetStep
    \/ PeekStep
    \/ LenStep
    \/ DeleteStep
    \/ StoreStep
    \/ DaemonTickStep
    \/ DaemonSweepStep
    \/ TickStep
    \/ BuildReturn

BuildSpec == BuildInit /\ [][BuildNext]_vars

\* -------------------------------------------------------------- the proxy
\* ServeHTTP, request by request. A request's steps are the points where it
\* touches the cache, the upstream or the client; what lies between them is
\* local to the request and belongs to the step that follows. The cache is
\* called through its methods, each one call under c.mu.
\* a step of the proxy that calls no cache method
NoCacheCall == last' = None /\ UNCHANGED <<config, data, daemon, now, touched>>

Update(r, fields) ==
    reqs' = [reqs EXCEPT ![r] = [f \in DOMAIN @ |-> IF f \in DOMAIN fields THEN fields[f] ELSE @[f]]]

isCacheable_anyMethod(method) == TRUE
isCacheable(method) == method = "GET"

\* ServeHTTP returns: the request, the outbound request and the upstream's
\* response are dropped; what stays is what the client and the upstream saw
Returned ==
    [pc |-> "done", lines |-> <<>>, remote |-> "", out |-> NoHeader, resp |-> NoResponse,
     header |-> NoHeader]

\* http.Error(w, text, code)
ErrorHeader(h) ==
    HeaderSet(HeaderSet(HeaderDel(h, "Content-Length"),
                        "Content-Type", "text/plain; charset=utf-8"),
              "X-Content-Type-Options", "nosniff")

\* the reply of the other error branch (lines 77-81)
Error_badUpstreamRequest(r, text, code) ==
    [committed |-> TRUE, status |-> 500, sent |-> ErrorHeader(reqs[r].header),
     body |-> "bad upstream request"] @@ Returned

Error(r, text, code) ==
    LET h == ErrorHeader(reqs[r].header)
        first == ~reqs[r].committed
    IN [committed |-> TRUE,
        status |-> IF first THEN code ELSE reqs[r].status,
        sent |-> IF first THEN h ELSE reqs[r].sent,
        body |-> text] @@ Returned

\* cachedResp, ok := p.cache.Get(uniqueKey); if ok { serve it }
CacheHit_never(ret) == FALSE
CacheHit(ret) == ret.ok

\* lines 60-74: the request arrives; a GET with a cache attached looks its URL up
Arrive(r, in) ==
    LET arrived == in @@ [after |-> {q \in Reqs : reqs[q].pc = "done"}]
    IN /\ reqs[r].pc = "new"
       /\ \A q \in Reqs : q < r => reqs[q].pc # "new"
       /\ IF isCacheable(in.method) /\ attached
          THEN /\ Get(in.url)
               /\ Update(r, arrived @@ [pc |-> IF CacheHit(last') THEN "replay" ELSE "send",
                                        found |-> IF CacheHit(last') THEN last'.value ELSE 0])
          ELSE /\ Update(r, arrived @@ [pc |-> "send"])
               /\ NoCacheCall
       /\ UNCHANGED <<calls, attached>>

\* serveCachedResponse; an error of w.Write is logged
Replay(r) ==
    LET cachedResp == reqs[reqs[r].found].cached
        h == CopyHeader(reqs[r].header, cachedResp.Header)
    IN /\ reqs[r].pc = "replay"
       /\ \E wrote \in BOOLEAN :
            Update(r, [committed |-> TRUE, status |-> cachedResp.Status, sent |-> h,
                       body |-> IF wrote THEN cachedResp.Body ELSE ""] @@ Returned)
       /\ NoCacheCall
       /\ UNCHANGED <<calls, attached>>

\* buildUpstreamRequest: the header of the outbound request
buildUpstreamRequest(lines, remote) ==
    LET cloned == ReadHeader(lines)
        stripped == removeHopByHopHeaders(cloned)
        forwarded == HeaderSet(HeaderSet(stripped, "X-Forwarded-Host", "proxy.example"),
                               "X-Forwarded-Proto", "http")
        s == SplitHostPort(remote)
    IN IF s.err THEN forwarded ELSE HeaderSet(forwarded, "X-Forwarded-For", s.host)

\* lines 76-90: build the outbound request, p.client.Do. The head of a response
\* comes back, or an error: the transport's, or the context's when the client
\* went away and req.Context() was cancelled while the call was pending
Send(r) ==
    LET outReq == buildUpstreamRequest(reqs[r].lines, reqs[r].remote)
        sent == [out |-> outReq, upstream |-> reqs[r].upstream + 1]
    IN /\ reqs[r].pc = "send"
       /\ \/ \E resp \in Responses : Update(r, sent @@ [resp |-> resp, pc |-> "read"])
          \/ \E cancelled \in BOOLEAN :
                Update(r, [upstream |-> reqs[r].upstream + 1, cancelled |-> cancelled]
                          @@ Error(r, "upstream error", 502))
       /\ NoCacheCall
       /\ UNCHANGED <<calls, attached>>

\* lines 93-136: strip the response header, read the body (which fails when the
\* stream breaks or the context is cancelled); on success copy the header to
\* w.Header(), store the response when the request is cacheable, and start the
\* flush goroutine
\* the same with the store ahead of io.ReadAll
ReadBody_storesFirst(r) ==
    LET resp == reqs[r].resp
        respHeader == removeHopByHopHeaders(ReadHeader(resp.lines))
        w == CopyHeader(reqs[r].header, respHeader)
        ttl == parseMaxAge(HeaderGet(respHeader, "Cache-Control"))
        store == isCacheable(reqs[r].method) /\ attached
        cachedResp == [Status |-> resp.status, Header |-> respHeader, Body |-> resp.body,
                       CachedAt |-> now]
    IN /\ reqs[r].pc = "read"
       /\ \/ /\ \E cancelled \in BOOLEAN :
                   Update(r, [cancelled |-> cancelled] @@ Error(r, "error reading response", 500))
             /\ IF store THEN Set(reqs[r].url, r, now) ELSE NoCacheCall
          \/ /\ IF store
                THEN IF ttl > 0
                     THEN SetWithTTL(reqs[r].url, r, ttl, now)
                     ELSE Set(reqs[r].url, r, now)
                ELSE NoCacheCall
             /\ Update(r, [header |-> w, flusher |-> "select", pc |-> "head"]
                          @@ (IF store THEN [cached |-> cachedResp, stored |-> TRUE]
                              ELSE [pc |-> "head"]))
       /\ UNCHANGED <<calls, attached>>

ReadBody(r) ==
    LET resp == reqs[r].resp
        respHeader == removeHopByHopHeaders(ReadHeader(resp.lines))
        w == CopyHeader(reqs[r].header, respHeader)
        ttl == parseMaxAge(HeaderGet(respHeader, "Cache-Control"))
        store == isCacheable(reqs[r].method) /\ attached
        cachedResp == [Status |-> resp.status, Header |-> respHeader, Body |-> resp.body,
                       CachedAt |-> now]
    IN /\ reqs[r].pc = "read"
       /\ \/ /\ \E cancelled \in BOOLEAN :
                   Update(r, [cancelled |-> cancelled] @@ Error(r, "error reading response", 500))
             /\ NoCacheCall
          \/ /\ IF store
                THEN IF ttl > 0
                     THEN SetWithTTL(reqs[r].url, r, ttl, now)
                     ELSE Set(reqs[r].url, r, now)
                ELSE NoCacheCall
             /\ Update(r, [header |-> w, flusher |-> "select", pc |-> "head"]
                          @@ (IF store THEN [cached |-> cachedResp, stored |-> TRUE]
                              ELSE [pc |-> "head"]))
       /\ UNCHANGED <<calls, attached>>

\* w.WriteHeader(code) on the ResponseWriter: the head goes out once
Commit(r, code) ==
    IF reqs[r].committed
    THEN [committed |-> TRUE]
    ELSE [committed |-> TRUE, status |-> code, sent |-> reqs[r].header]

\* line 137: w.WriteHeader(resp.StatusCode)
WriteHeader(r) ==
    /\ reqs[r].pc = "head"
    /\ Update(r, Commit(r, reqs[r].resp.status) @@ [pc |-> "body"])
    /\ NoCacheCall
    /\ UNCHANGED <<calls, attached>>

\* (mutant) a failed write to the client takes the stored entry back
Write_undoesOnFailure(r) ==
    /\ reqs[r].pc = "body"
    /\ \E wrote \in BOOLEAN :
         /\ Update(r, [body |-> IF wrote THEN reqs[r].resp.body ELSE ""] @@ Returned)
         /\ IF ~wrote /\ attached THEN Delete(reqs[r].url) ELSE NoCacheCall
    /\ UNCHANGED <<calls, attached>>

\* lines 140-144: w.Write(bodyBytes), an error of which is logged; close(done);
\* ServeHTTP returns
Write(r) ==
    /\ reqs[r].pc = "body"
    /\ \E wrote \in BOOLEAN :
         Update(r, [body |-> IF wrote THEN reqs[r].resp.body ELSE ""] @@ Returned)
    /\ NoCacheCall
    /\ UNCHANGED <<calls, attached>>

\* lines 129-136, case <-time.Tick(10ms): w.(http.Flusher).Flush(), which sends
\* the head with status 200 when none went out yet; the goroutine ends
Flush(r) ==
    /\ reqs[r].flusher = "select"
    /\ Update(r, Commit(r, 200) @@ [flusher |-> "exit", flushes |-> reqs[r].flushes + 1,
                                    lateFlush |-> reqs[r].pc = "done"])
    /\ NoCacheCall
    /\ UNCHANGED <<calls, attached>>

\* lines 129-136, case <-done: return
FlushReturn(r) ==
    /\ reqs[r].flusher = "select"
    /\ reqs[r].pc = "done"
    /\ Update(r, [flusher |-> "exit"])
    /\ NoCacheCall
    /\ UNCHANGED <<calls, attached>>

ProxyTick == Tick /\ UNCHANGED <<calls, web>>

\* NewProxy(upstream, client) with or without WithCache(cache), the cache as
\* NewLRUTTL built it, its cleanup goroutine not started
ProxyInit ==
    /\ attached \in BOOLEAN
    /\ capacity \in (IF attached THEN Capacities ELSE {1})
    /\ defaultTTL \in (IF attached THEN TTLs ELSE {0})
    /\ ll = <<>>
    /\ items = <<>>
    /\ elems = <<>>
    /\ cleanupRunning = FALSE
    /\ daemons = [select |-> 0, closed |-> 0, sweep |-> 0]
    /\ now = 1
    /\ last = None
    /\ touched = <<>>
    /\ mu = [writer |-> 0, readers |-> {}]
    /\ procs = [p \in Procs |-> IdleFrame]
    /\ reqs = [r \in Reqs |-> NewRequest]

ProxyNext ==
    \/ \E r \in Reqs, in \in Inbound : Arrive(r, in)
    \/ \E r \in Reqs : Replay(r)
    \/ \E r \in Reqs : Send(r)
    \/ \E r \in Reqs : ReadBody(r)
    \/ \E r \in Reqs : WriteHeader(r)
    \/ \E r \in Reqs : Write(r)
    \/ \E r \in Reqs : Flush(r)
    \/ \E r \in Reqs : FlushReturn(r)
    \/ ProxyTick

ProxySpec == ProxyInit /\ [][ProxyNext]_vars

\* ------------------------------------------- the methods, statement by statement
\* The same methods with c.mu made explicit: a call takes the lock its method
\* takes, runs the statements of the method one step each, and releases the lock
\* when it returns (defer).  Other goroutines and the clock move in between.

\* (mutant) Get under the read lock, as the methods that only read
LockOf_GetReadLocks(op) == IF op \in {"GetAll", "Get"} THEN "RLock" ELSE "Lock"

\* (mutant) the sweep under the read lock
LockOf_sweepReadLocks(op) == IF op \in {"GetAll", "cleanupExpired"} THEN "RLock" ELSE "Lock"

\* which lock a method takes: c.mu.RLock() in GetAll and Len, c.mu.Lock() in the
\* others
LockOf(op) == IF op \in {"GetAll", "Len"} THEN "RLock" ELSE "Lock"

\* c.mu.Lock() / c.mu.RLock() succeed
CanLock(op) ==
    IF LockOf(op) = "RLock" THEN mu.writer = 0 ELSE mu.writer = 0 /\ mu.readers = {}

Locked(p, op) ==
    IF LockOf(op) = "RLock"
    THEN [mu EXCEPT !.readers = @ \cup {p}]
    ELSE [mu EXCEPT !.writer = p]

\* c.mu.Unlock() / c.mu.RUnlock()
Unlocked(p) ==
    [writer |-> IF mu.writer = p THEN 0 ELSE mu.writer, readers |-> mu.readers \ {p}]

At(p, op, pc) == procs[p].op = op /\ procs[p].pc = pc
Goto(p, pc) == procs' = [procs EXCEPT ![p].pc = pc]

\* a goroutine enters a method: it has the lock, the body is still to run
Enter(p, op, key, value, expiresAt) ==
    /\ procs[p].pc = "idle"
    /\ CanLock(op)
    /\ mu' = Locked(p, op)
    /\ procs' = [procs EXCEPT ![p] = Frame("lookup", op, key, value, expiresAt)]
    /\ UNCHANGED <<config, data, daemon, now, last, touched, web>>

\* the method returns and the deferred unlock runs
Leave(p) ==
    /\ procs[p].pc = "return"
    /\ mu' = Unlocked(p)
    /\ procs' = [procs EXCEPT ![p] = IdleFrame]
    /\ UNCHANGED <<config, data, daemon, now, last, touched, web>>

\* element, ok := c.items[key], in Get, Get_Exclusive, Delete and setWithTTLInternal
Lookup(p, found, missing) ==
    /\ procs[p].pc = "lookup"
    /\ procs[p].op \in {"Get", "Get_Exclusive", "Delete", "set"}
    /\ procs' = IF procs[p].key \in DOMAIN items
                THEN [procs EXCEPT ![p].element = items[procs[p].key], ![p].pc = found]
                ELSE [procs EXCEPT ![p].pc = missing]
    /\ UNCHANGED <<config, data, daemon, now, last, touched, mu, web>>

\* where a method goes on after its lookup, for a key that is in the map
Found(op) ==
    IF op = "Get" THEN "check"
    ELSE IF op = "Get_Exclusive" THEN "read"
    ELSE IF op = "Delete" THEN "remove"
    ELSE "writeValue"

ConcLookup(p) ==
    Lookup(p, Found(procs[p].op), IF procs[p].op = "set" THEN "full" ELSE "return")

\* if isExpired(entry): the expiry is read from the entry and compared with the clock
ConcGetCheck(p) ==
    /\ At(p, "Get", "check")
    /\ LET entry == elems[procs[p].element]
       IN procs' = [procs EXCEPT ![p].expiresAt = entry.expiresAt,
                                 ![p].pc = IF isExpired(entry) THEN "remove" ELSE "move"]
    /\ UNCHANGED <<config, data, daemon, now, last, touched, mu, web>>

\* c.ll.Remove(element), in Get and Delete
ConcRemove(p) ==
    /\ procs[p].pc = "remove"
    /\ procs[p].op \in {"Get", "Delete"}
    /\ ll' = ListRemove(ll, procs[p].element)
    /\ Goto(p, "mapDelete")
    /\ UNCHANGED <<config, items, elems, daemon, now, last, touched, mu, web>>

\* delete(c.items, key), in Get and Delete
ConcMapDelete(p) ==
    /\ procs[p].pc = "mapDelete"
    /\ procs[p].op \in {"Get", "Delete"}
    /\ items' = MapDelete(items, procs[p].key)
    /\ elems' = Collect(elems, ll, items')
    /\ Goto(p, "return")
    /\ UNCHANGED <<config, ll, daemon, now, last, touched, mu, web>>

\* c.ll.MoveToFront(element): Get then reads the value, setWithTTLInternal returns
ConcMove(p) ==
    /\ procs[p].pc = "move"
    /\ procs[p].op \in {"Get", "set"}
    /\ ll' = MoveToFront(ll, procs[p].element)
    /\ Goto(p, IF procs[p].op = "Get" THEN "read" ELSE "return")
    /\ UNCHANGED <<config, items, elems, daemon, now, last, touched, mu, web>>

\* return entry.value, true: the value is read from the entry
ConcRead(p) ==
    /\ procs[p].pc = "read"
    /\ procs[p].op \in {"Get", "Get_Exclusive"}
    /\ procs' = [procs EXCEPT ![p].value = elems[procs[p].element].value,
                              ![p].ok = TRUE, ![p].pc = "return"]
    /\ UNCHANGED <<config, data, daemon, now, last, touched, mu, web>>

\* GetAll: one turn of `for k, ele := range c.items`, in any order of the keys
ConcGetAllRange(p) ==
    /\ At(p, "GetAll", "lookup")
    /\ LET left == (DOMAIN items) \ (DOMAIN procs[p].out)
       IN IF left = {}
          THEN Goto(p, "return")
          ELSE \E k \in left :
                  procs' = [procs EXCEPT ![p].out =
                              [x \in (DOMAIN @) \cup {k} |->
                                 IF x = k THEN elems[items[k]].value ELSE @[x]]]
    /\ UNCHANGED <<config, data, daemon, now, last, touched, mu, web>>

\* entry.value = value
ConcWriteValue(p) ==
    /\ At(p, "set", "writeValue")
    /\ elems' = [elems EXCEPT ![procs[p].element].value = procs[p].value]
    /\ Goto(p, "writeExpiry")
    /\ UNCHANGED <<config, ll, items, daemon, now, last, touched, mu, web>>

\* entry.expiresAt = expiresAt
ConcWriteExpiry(p) ==
    /\ At(p, "set", "writeExpiry")
    /\ elems' = [elems EXCEPT ![procs[p].element].expiresAt = procs[p].expiresAt]
    /\ Goto(p, "move")
    /\ UNCHANGED <<config, ll, items, daemon, now, last, touched, mu, web>>

\* if len(c.items) >= c.capacity { tail := c.ll.Back(); if tail == nil { panic } }
ConcFull(p) ==
    /\ At(p, "set", "full")
    /\ procs' = IF ~IsFull THEN [procs EXCEPT ![p].pc = "push"]
                ELSE IF Back(ll) = 0 THEN [procs EXCEPT ![p].pc = "return"]
                ELSE [procs EXCEPT ![p].element = Back(ll), ![p].pc = "evictList"]
    /\ UNCHANGED <<config, data, daemon, now, last, touched, mu, web>>

\* c.ll.Remove(tail)
ConcEvictList(p) ==
    /\ At(p, "set", "evictList")
    /\ ll' = ListRemove(ll, procs[p].element)
    /\ Goto(p, "evictMap")
    /\ UNCHANGED <<config, items, elems, daemon, now, last, touched, mu, web>>

\* delete(c.items, entry.key), entry being the tail's
ConcEvictMap(p) ==
    /\ At(p, "set", "evictMap")
    /\ items' = MapDelete(items, elems[procs[p].element].key)
    /\ elems' = Collect(elems, ll, items')
    /\ Goto(p, "push")
    /\ UNCHANGED <<config, ll, daemon, now, last, touched, mu, web>>

\* entry := &ttlEntry{key, value, expiresAt}; element := c.ll.PushFront(entry)
ConcPush(p) ==
    /\ At(p, "set", "push")
    /\ LET element == NewElement(elems)
       IN /\ elems' = [e \in (DOMAIN elems) \cup {element} |->
                         IF e = element
                         THEN [key |-> procs[p].key, value |-> procs[p].value,
                               expiresAt |-> procs[p].expiresAt]
                         ELSE elems[e]]
          /\ ll' = PushFront(ll, element)
          /\ procs' = [procs EXCEPT ![p].element = element, ![p].pc = "put"]
    /\ UNCHANGED <<config, items, daemon, now, last, touched, mu, web>>

\* c.items[key] = element
ConcPut(p) ==
    /\ At(p, "set", "put")
    /\ items' = MapPut(items, procs[p].key, procs[p].element)
    /\ Goto(p, "return")
    /\ UNCHANGED <<config, ll, elems, daemon, now, last, touched, mu, web>>

\* cleanupExpired: current := c.ll.Front()
ConcFront(p) ==
    /\ At(p, "cleanupExpired", "lookup")
    /\ procs' = [procs EXCEPT ![p].rest = ll, ![p].pc = "walk"]
    /\ UNCHANGED <<config, data, daemon, now, last, touched, mu, web>>

\* one turn of the loop: next, entry, isExpired(entry) and c.ll.Remove(current)
ConcWalk(p) ==
    /\ At(p, "cleanupExpired", "walk")
    /\ IF procs[p].rest = <<>>
       THEN Goto(p, "return") /\ UNCHANGED ll
       ELSE LET current == Head(procs[p].rest)
            IN IF isExpired(elems[current])
               THEN /\ ll' = ListRemove(ll, current)
                    /\ procs' = [procs EXCEPT ![p].element = current, ![p].pc = "walkDelete"]
               ELSE /\ procs' = [procs EXCEPT ![p].rest = Tail(@)]
                    /\ UNCHANGED ll
    /\ UNCHANGED <<config, items, elems, daemon, now, last, touched, mu, web>>

\* delete(c.items, entry.key); current = next
ConcWalkDelete(p) ==
    /\ At(p, "cleanupExpired", "walkDelete")
    /\ items' = MapDelete(items, elems[procs[p].element].key)
    /\ elems' = Collect(elems, ll, items')
    /\ procs' = [procs EXCEPT ![p].rest = Tail(@), ![p].pc = "walk"]
    /\ UNCHANGED <<config, ll, daemon, now, last, touched, mu, web>>

\* the stores of the concurrent callers: value v goes with ttlSeconds v - 1, so
\* that the value of an entry tells which expiry was stored along with it
TagTTL(v) == v - 1

ConcCall(p) ==
    \/ \E k \in Keys : Enter(p, "Get", k, ZeroValue, ZeroTime)
    \/ \E k \in Keys : Enter(p, "Get_Exclusive", k, ZeroValue, ZeroTime)
    \/ \E k \in Keys : Enter(p, "Delete", k, ZeroValue, ZeroTime)
    \/ \E k \in Keys, v \in Values : Enter(p, "set", k, v, TTLExpiry(TagTTL(v), now))
    \/ Enter(p, "GetAll", NoKey, ZeroValue, ZeroTime)
    \/ Enter(p, "cleanupExpired", NoKey, ZeroValue, ZeroTime)

ConcTick == Tick /\ UNCHANGED <<calls, web>>

ConcNext ==
    \/ \E p \in Procs : ConcCall(p)
    \/ \E p \in Procs : ConcLookup(p)
    \/ \E p \in Procs : ConcGetCheck(p)
    \/ \E p \in Procs : ConcRemove(p)
    \/ \E p \in Procs : ConcMapDelete(p)
    \/ \E p \in Procs : ConcMove(p)
    \/ \E p \in Procs : ConcRead(p)
    \/ \E p \in Procs : ConcGetAllRange(p)
    \/ \E p \in Procs : ConcWriteValue(p)
    \/ \E p \in Procs : ConcWriteExpiry(p)
    \/ \E p \in Procs : ConcFull(p)
    \/ \E p \in Procs : ConcEvictList(p)
    \/ \E p \in Procs : ConcEvictMap(p)
    \/ \E p \in Procs : ConcPush(p)
    \/ \E p \in Procs : ConcPut(p)
    \/ \E p \in Procs : ConcFront(p)
    \/ \E p \in Procs : ConcWalk(p)
    \/ \E p \in Procs : ConcWalkDelete(p)
    \/ \E p \in Procs : Leave(p)
    \/ ConcTick

ConcSpec == Init /\ [][ConcNext]_vars

\* ------------------------------------------------------- the expiry of a TTL
\* time.Duration is a signed integer of DurationBits bits (64 in Go, as int is on
\* the usual platforms) that counts ticks, Second of them to the second (10^9 in
\* Go, which like 12 has 2 among its factors); the arithmetic wraps
DurationBits == 6
Second == 12
MaxInt == 2 ^ (DurationBits - 1) - 1

\* a result of integer arithmetic, as the machine keeps it
Wrap(n) ==
    LET m == n % (2 ^ DurationBits)
    IN IF m > MaxInt THEN m - 2 ^ DurationBits ELSE m

\* time.Duration(ttlSeconds) * time.Second
SecondsDuration(ttlSeconds) == Wrap(ttlSeconds * Second)

\* time.Now().Add(d), in ticks, for a clock that shows t0 seconds
AddDuration(t0, d) == t0 * Second + d

\* what SetWithTTL makes of ttlSeconds > 0 before it stores
TtlRet(ttlSeconds, t0, text) ==
    [op |-> "SetWithTTL", ttlSeconds |-> ttlSeconds, t0 |-> t0 * Second, text |-> text,
     duration |-> SecondsDuration(ttlSeconds),
     expiresAt |-> AddDuration(t0, SecondsDuration(ttlSeconds))]

\* SetWithTTL(key, value, ttlSeconds) with ttlSeconds > 0, called directly
TtlStore ==
    /\ \E ttlSeconds \in 1..MaxInt : last' = TtlRet(ttlSeconds, now, "")
    /\ UNCHANGED <<config, data, daemon, now, touched, calls, web>>

\* the store of the proxy: ttl := parseMaxAge(...); if ttl > 0 { SetWithTTL(..., ttl) }
TtlProxyStore ==
    /\ \E text \in CacheControls :
         LET ttl == parseMaxAge(text)
         IN last' = IF ttl > 0 THEN TtlRet(ttl, now, text)
                    ELSE [op |-> "Set", text |-> text]
    /\ UNCHANGED <<config, data, daemon, now, touched, calls, web>>

TtlTick == Tick /\ UNCHANGED <<calls, web>>

TtlNext ==
    \/ TtlStore
    \/ TtlProxyStore
    \/ TtlTick

TtlSpec == Init /\ [][TtlNext]_vars

\* ------------------------------------------------- the lock, call by call
\* Every method of the cache with its wait for c.mu made explicit: a goroutine
\* calls a method, waits for the lock, runs the body while it holds the lock, and
\* the deferred unlock runs when the body returns or panics. The sweeper
\* goroutines take the same lock for each pass. The arguments of a call play no
\* part in the waiting and are drawn when the body runs.
LockOps ==
    {"Get", "Get_Exclusive", "GetAll", "Len", "Delete", "Set", "SetWithTTL",
     "StartCleanupDaemon", "StopCleanupDaemon", "Close"}

\* the caches the callers share, and the keys they use: small, since who gets the
\* lock does not depend on what is stored; the clock stands still
LockMaxCapacity == 1
LockMaxTTL == 0
LockKeys == 1..MaxImport

\* the holder of c.mu when a sweeper goroutine is inside cleanupExpired
SweeperId == NumProcs + 1

\* the calls of StartCleanupDaemon are counted out, those under way included
StartsLeft ==
    NumDaemons + Cardinality({q \in Procs : procs[q].op = "StartCleanupDaemon"}) < MaxSweepers

\* a goroutine calls a method and comes to its c.mu.Lock() / c.mu.RLock()
LockCall(p) ==
    /\ procs[p].pc = "idle"
    /\ \E op \in LockOps :
         /\ op = "StartCleanupDaemon" => StartsLeft
         /\ procs' = [procs EXCEPT ![p] = Frame("wait", op, NoKey, ZeroValue, ZeroTime)]
    /\ UNCHANGED <<config, data, daemon, now, last, touched, mu, web>>

\* a writer is in c.mu.Lock(): sync.RWMutex then holds back the readers that come
WriterWaits ==
    \/ \E q \in Procs : procs[q].pc = "wait" /\ LockOf(procs[q].op) = "Lock"
    \/ daemons.sweep > (IF mu.writer = SweeperId THEN 1 ELSE 0)

\* the readers that wait in c.mu.RLock()
ReadersWaiting == {q \in Procs : procs[q].pc = "wait" /\ LockOf(procs[q].op) = "RLock"}

\* (mutant) a waiting call that takes the lock whoever holds it
LockAcquire_barges(p) ==
    /\ procs[p].pc = "wait"
    /\ mu' = Locked(p, procs[p].op)
    /\ Goto(p, "in")
    /\ UNCHANGED <<config, data, daemon, now, last, touched, web>>

\* the lock is granted: to a writer when nobody holds it, to a reader when no
\* writer holds it or waits for it
LockAcquire(p) ==
    /\ procs[p].pc = "wait"
    /\ CanLock(procs[p].op)
    /\ LockOf(procs[p].op) = "RLock" => ~WriterWaits
    /\ mu' = Locked(p, procs[p].op)
    /\ Goto(p, "in")
    /\ UNCHANGED <<config, data, daemon, now, last, touched, web>>

\* c.mu.Unlock() of a writer lets in the readers that were held back
Handoff(f) ==
    /\ mu' = [writer |-> 0, readers |-> ReadersWaiting]
    /\ procs' = [q \in Procs |-> IF q \in ReadersWaiting THEN [f[q] EXCEPT !.pc = "in"] ELSE f[q]]

\* the body of the method, under the lock
BodyOf(op) ==
    CASE op = "Get" -> \E k \in LockKeys : Get(k)
      [] op = "Get_Exclusive" -> \E k \in LockKeys : Get_Exclusive(k)
      [] op = "GetAll" -> GetAll
      [] op = "Len" -> LenOp
      [] op = "Delete" -> \E k \in LockKeys : Delete(k)
      [] op = "Set" -> \E k \in LockKeys, t0 \in ClockReads : Set(k, CHOOSE v \in Values : TRUE, t0)
      [] op = "SetWithTTL" ->
            \E k \in LockKeys, ttl \in TTLs :
               \E t0 \in (IF ttl > 0 THEN ClockReads ELSE {now}) :
                  SetWithTTL(k, CHOOSE v \in Values : TRUE, ttl, t0)
      [] op = "StartCleanupDaemon" -> StartCleanupDaemon
      [] op = "StopCleanupDaemon" -> StopCleanupDaemon
      [] op = "Close" -> Close

LockBody(p) ==
    /\ procs[p].pc = "in"
    /\ BodyOf(procs[p].op)
    /\ Goto(p, IF last'.op = "panic" THEN "panic" ELSE "return")
    /\ UNCHANGED <<mu, web>>

\* (mutant) the unlock at the end of the body, not deferred: a panic skips it
LockLeave_notDeferred(p) ==
    /\ procs[p].pc \in {"return", "panic"}
    /\ IF procs[p].pc = "panic"
       THEN mu' = mu /\ procs' = [procs EXCEPT ![p] = IdleFrame]
       ELSE IF mu.writer = p
            THEN Handoff([procs EXCEPT ![p] = IdleFrame])
            ELSE mu' = Unlocked(p) /\ procs' = [procs EXCEPT ![p] = IdleFrame]
    /\ last' = None
    /\ UNCHANGED <<config, data, daemon, now, touched, web>>

\* defer c.mu.Unlock() / c.mu.RUnlock(): runs when the body returns and when it
\* panics; the call is over
LockLeave(p) ==
    /\ procs[p].pc \in {"return", "panic"}
    /\ IF mu.writer = p
       THEN Handoff([procs EXCEPT ![p] = IdleFrame])
       ELSE mu' = Unlocked(p) /\ procs' = [procs EXCEPT ![p] = IdleFrame]
    /\ last' = None
    /\ UNCHANGED <<config, data, daemon, now, touched, web>>

\* case <-ticker.C of a sweeper goroutine: it comes to the c.mu.Lock() of cleanupExpired
LockSweepTick == DaemonTick /\ UNCHANGED <<calls, web>>

\* cleanupExpired is granted the lock
LockSweepAcquire ==
    /\ daemons.sweep > 0
    /\ mu = [writer |-> 0, readers |-> {}]
    /\ mu' = [mu EXCEPT !.writer = SweeperId]
    /\ UNCHANGED <<config, data, daemon, now, last, touched, procs, web>>

\* the pass, and its deferred unlock
LockSweepRun ==
    /\ mu.writer = SweeperId
    /\ DaemonSweep
    /\ Handoff(procs)
    /\ UNCHANGED web

LockSweepExit == DaemonExit /\ UNCHANGED <<calls, web>>

\* a cache as NewLRUTTL hands it out, with or without an imported items map and
\* a started sweeper
LockInit ==
    \E c \in 1..LockMaxCapacity, d \in 0..LockMaxTTL, start \in BOOLEAN, m \in ImportMaps :
        /\ capacity = c
        /\ defaultTTL = d
        /\ ll = <<>>
        /\ items = m
        /\ elems = ImportedEntries(m)
        /\ cleanupRunning = start
        /\ daemons = [select |-> IF start THEN 1 ELSE 0, closed |-> 0, sweep |-> 0]
        /\ now = 1
        /\ last = None
        /\ touched = <<>>
        /\ mu = [writer |-> 0, readers |-> {}]
        /\ procs = [p \in Procs |-> IdleFrame]
        /\ attached = TRUE
        /\ reqs = [r \in Reqs |-> NewRequest]

LockNext ==
    \/ \E p \in Procs : LockCall(p)
    \/ \E p \in Procs : LockAcquire(p)
    \/ \E p \in Procs : LockBody(p)
    \/ \E p \in Procs : LockLeave(p)
    \/ LockSweepTick
    \/ LockSweepAcquire
    \/ LockSweepRun
    \/ LockSweepExit

\* the scheduler runs every goroutine that can run; sync.RWMutex hands the lock
\* to a goroutine that keeps waiting for it (a waiting writer holds new readers
\* back, and sync.Mutex goes into starvation mode)
LockFairness ==
    /\ \A p \in Procs : SF_vars(LockAcquire(p)) /\ WF_vars(LockBody(p) \/ LockLeave(p))
    /\ SF_vars(LockSweepAcquire)
    /\ WF_vars(LockSweepRun)

LockSpec == LockInit /\ [][LockNext]_vars /\ LockFairness

\* ================================================================ properties
\* the keys of the list, front first
ListKeys(l, h) == [i \in 1..Len(l) |-> h[l[i]].key]

\* the entry stored under key k
EntryOf(k) == elems[items[k]]

\* expiry as the contract states it: a non-zero expires_at that lies in the past
PastExpiry(entry, t) == entry.expiresAt # ZeroTime /\ t > entry.expiresAt

\* C1: the key map never holds more than capacity entries, so Len never
\* reports more than capacity
CapacityBound ==
    /\ Cardinality(DOMAIN items) <= capacity
    /\ (last.op = "Len" => last.n <= capacity)

\* a store into a full cache of the largest capacity evicted, and Len then
\* could only see capacity entries
CapacityBoundWitness ==
    /\ last.op = "set"
    /\ last.evicted # NoKey
    /\ capacity = MaxCapacity
    /\ Cardinality(DOMAIN items) = capacity

\* C2: the map and the list hold the same entries: as many, and every key of the
\* map refers to an element that is in the list exactly once and carries that key
MapListConsistent ==
    /\ Cardinality(DOMAIN items) = Len(ll)
    /\ \A k \in DOMAIN items :
          /\ Cardinality({i \in 1..Len(ll) : ll[i] = items[k]}) = 1
          /\ items[k] \in DOMAIN elems
          /\ elems[items[k]].key = k

\* a Get has just removed an expired entry while a cleanup goroutine that took
\* its tick waits for the lock, and another entry is still stored
MapListConsistentWitness ==
    /\ last.op = "Get"
    /\ last.expired
    /\ daemons.sweep > 0
    /\ Len(ll) >= 1

\* C3: a store of a key that is not in the map, into a cache that holds capacity
\* entries, removes exactly the entry at the tail of the list, which is the least
\* recently touched one, and keeps every other entry, behind the new one
EvictsExactlyTheTail ==
    [][(/\ last'.op = "set"
        /\ last'.key \notin DOMAIN items
        /\ Cardinality(DOMAIN items) >= capacity)
       => LET tailKey == elems[ll[Len(ll)]].key
          IN /\ last'.evicted = tailKey
             /\ tailKey = touched[Len(touched)]
             /\ DOMAIN items' = ((DOMAIN items) \ {tailKey}) \cup {last'.key}
             /\ \A k \in (DOMAIN items) \ {tailKey} : elems'[items'[k]] = EntryOf(k)
             /\ ListKeys(ll', elems') =
                  <<last'.key>> \o SubSeq(ListKeys(ll, elems), 1, Len(ll) - 1)]_vars

\* a store has evicted the tail of a cache of capacity 2 although the entry it
\* kept was already expired
EvictsExactlyTheTailWitness ==
    /\ last.op = "set"
    /\ last.evicted # NoKey
    /\ capacity = 2
    /\ Len(ll) = 2
    /\ PastExpiry(elems[ll[2]], now)

\* C4: Get of an entry whose expiry has passed reports a miss and removes the
\* entry from the map and from the list; Get of a present entry whose expiry has
\* not passed returns its value and reports a hit
ExpiryOnGet ==
    [][\A k \in DOMAIN items :
         (last'.op = "Get" /\ last'.key = k)
         => IF PastExpiry(EntryOf(k), now)
            THEN /\ ~last'.ok
                 /\ last'.value = ZeroValue
                 /\ k \notin DOMAIN items'
                 /\ items[k] \notin Range(ll')
                 /\ Len(ll') = Len(ll) - 1
            ELSE /\ last'.ok
                 /\ last'.value = EntryOf(k).value
                 /\ k \in DOMAIN items']_vars

\* a Get found its entry expired, reported a miss and removed it
ExpiryOnGetWitness ==
    /\ last.op = "Get"
    /\ last.expired
    /\ ~last.ok
    /\ last.key \notin DOMAIN items

\* C5: a store of (k, v) leaves v under k; from then on k keeps that value through
\* every step that is not an overwrite of k, a Delete of k, the eviction of k as
\* tail, or the removal of k after its expiry; and while k is stored and its
\* expiry has not passed, Get(k) hits with that value, as Get_Exclusive(k) does
ReadYourWrites ==
    [][/\ last'.op = "set"
            => /\ last'.key \in DOMAIN items'
               /\ elems'[items'[last'.key]].value = last'.value
       /\ \A k \in DOMAIN items :
            \/ k \in DOMAIN items' /\ elems'[items'[k]].value = EntryOf(k).value
            \/ last'.op = "set" /\ last'.key = k
            \/ last'.op = "set" /\ last'.evicted = k /\ k = touched[Len(touched)]
            \/ last'.op = "Delete" /\ last'.key = k
            \/ /\ PastExpiry(EntryOf(k), now)
               /\ \/ last'.op = "Get" /\ last'.key = k
                  \/ last'.op = "cleanupExpired"
       /\ \A k \in DOMAIN items :
            /\ (last'.op = "Get" /\ last'.key = k /\ ~PastExpiry(EntryOf(k), now))
                 => last'.ok /\ last'.value = EntryOf(k).value
            /\ (last'.op = "Get_Exclusive" /\ last'.key = k)
                 => last'.ok /\ last'.value = EntryOf(k).value]_vars

\* a Get returned the second value of a key that still holds it: the value of the
\* latest store (the model stores value 2 only by a Set or SetWithTTL)
ReadYourWritesWitness ==
    /\ last.op = "Get"
    /\ last.ok
    /\ last.value = 2
    /\ EntryOf(last.key).value = 2
    /\ Len(ll) = 2

\* Get(k) would report a hit in this state
GetWouldHit(k) == k \in DOMAIN items /\ ~isExpired(EntryOf(k))

\* C6 as stated: Get_Exclusive(k) reports a hit exactly when Get(k) would
PeekSameVisibilityAsGet ==
    last.op = "Get_Exclusive" => (last.ok <=> GetWouldHit(last.key))

\* C6, amended: Get_Exclusive(k) reports a hit exactly when k is in the map,
\* expired or not, with the stored value; so it hits whenever Get(k) would, and
\* an expired entry that was not removed yet is a hit for it
PeekSeesTheMap ==
    last.op = "Get_Exclusive"
    => /\ last.ok <=> last.key \in DOMAIN items
       /\ GetWouldHit(last.key) => last.ok
       /\ last.value = IF last.key \in DOMAIN items THEN EntryOf(last.key).value ELSE ZeroValue

\* a peek has hit an entry whose expiry had passed
PeekSeesTheMapWitness ==
    /\ last.op = "Get_Exclusive"
    /\ last.ok
    /\ PastExpiry(EntryOf(last.key), now)

\* C7: the list is ordered by last touch, front most recent, a touch being an
\* insert, an overwrite or a Get hit; a Get hit leaves its entry at the front;
\* Get_Exclusive, Len and GetAll leave the list as it is
RecencyOrder ==
    /\ [](ListKeys(ll, elems) = touched)
    /\ [][/\ (last'.op = "Get" /\ last'.ok) => ListKeys(ll', elems')[1] = last'.key
          /\ last'.op \in {"Get_Exclusive", "Len", "GetAll"} => ll' = ll /\ elems' = elems]_vars

\* a Get hit has moved the entry that was at the tail to the front
RecencyOrderWitness ==
    /\ last.op = "Get"
    /\ last.ok
    /\ Len(ll) = 2
    /\ elems[ll[1]].key = last.key
    /\ touched = <<last.key, elems[ll[2]].key>>

\* C8: a store to a key that is in the map removes nothing: the same keys stay,
\* the entry of the key gets the new value and expiry and stands at the front,
\* every other entry keeps its value, its expiry and its place among the others
UpdateNeverEvicts ==
    [][(last'.op = "set" /\ last'.key \in DOMAIN items)
       => LET k == last'.key
          IN /\ DOMAIN items' = DOMAIN items
             /\ Len(ll') = Len(ll)
             /\ last'.evicted = NoKey
             /\ elems'[items'[k]] =
                  [key |-> k, value |-> last'.value, expiresAt |-> last'.expiresAt]
             /\ ListKeys(ll', elems')[1] = k
             /\ \A j \in (DOMAIN items) \ {k} : elems'[items'[j]] = EntryOf(j)
             /\ SelectSeq(ListKeys(ll', elems'), LAMBDA j : j # k) =
                  SelectSeq(ListKeys(ll, elems), LAMBDA j : j # k)]_vars

\* a store has updated the key at the tail of a full cache of capacity 2
UpdateNeverEvictsWitness ==
    /\ last.op = "set"
    /\ last.existed
    /\ capacity = 2
    /\ Len(ll) = 2
    /\ elems[ll[1]].key = last.key

\* C9: Delete(k) leaves k out of the map; Delete of an absent key changes nothing;
\* Delete of a present key keeps every other entry and their order; and a key that
\* is not in the map stays out, a miss with the zero value for Get and
\* Get_Exclusive, until a store of it
DeleteRemoves ==
    [][/\ last'.op = "Delete"
          => LET k == last'.key
             IN /\ k \notin DOMAIN items'
                /\ k \notin DOMAIN items => UNCHANGED <<ll, items, elems, touched>>
                /\ \A j \in (DOMAIN items) \ {k} :
                      j \in DOMAIN items' /\ elems'[items'[j]] = EntryOf(j)
                /\ ListKeys(ll', elems') = SelectSeq(ListKeys(ll, elems), LAMBDA j : j # k)
       /\ \A k \in Keys \ DOMAIN items :
            /\ k \in DOMAIN items' => last'.op = "set" /\ last'.key = k
            /\ (last'.op \in {"Get", "Get_Exclusive"} /\ last'.key = k)
                 => ~last'.ok /\ last'.value = ZeroValue]_vars

\* a Delete has removed its key and left another entry stored
DeleteRemovesWitness ==
    /\ last.op = "Delete"
    /\ last.existed
    /\ last.key \notin DOMAIN items
    /\ Len(ll) >= 1

\* C10 as stated: an entry stored by Set on a cache with default TTL 0 carries no
\* expiry (it is never treated as expired), and with default TTL d > 0 it expires
\* at the time of the Set plus d
SetUsesDefaultTTL ==
    [][last'.op = "set"
       => \A t0 \in ClockReads :
            Set(last'.key, last'.value, t0)
            => elems'[items'[last'.key]].expiresAt =
                 IF defaultTTL = 0 THEN ZeroTime ELSE t0 + defaultTTL]_vars

\* the goroutines that have not been told to stop: those that wait in select on
\* the open channel and those that are in a pass and will come back to it
Sweepers == daemons.select + daemons.sweep

\* a call of StopCleanupDaemon or Close has just returned
Stopped == last.op \in {"StopCleanupDaemon", "Close"}

\* C15 as stated: after StopCleanupDaemon or Close has returned, every cleanup
\* goroutine eventually exits, unless StartCleanupDaemon is called again
StopReallyStops ==
    Stopped ~> (NumDaemons = 0 \/ last.op = "StartCleanupDaemon")

\* C14 as stated: at most one cleanup goroutine is active, and c.cleanupRunning
\* is true exactly when one is (the flag is compared while no goroutine is in a
\* pass or on its way out)
AtMostOneSweeper ==
    /\ Sweepers <= 1
    /\ (daemons.sweep = 0 /\ daemons.closed = 0) => (cleanupRunning <=> daemons.select = 1)

\* C16 as stated: after stop and start one sweeper is active, and a further
\* StopCleanupDaemon or Close stops that one too: a stop that comes while the
\* goroutine of an earlier stop is still on its way out leaves no goroutine
\* waiting on an open channel
RestartedSweeperStops ==
    [][/\ (last'.op = "StartCleanupDaemon" /\ daemons.closed > 0 /\ Sweepers = 0)
            => Sweepers' = 1
       /\ (last'.op \in {"StopCleanupDaemon", "Close"} /\ daemons.closed > 0)
            => daemons'.select = 0]_vars

\* the sweep removes exactly the entries whose expiry has passed
SweepRemovesTheExpired ==
    last'.op = "cleanupExpired"
    => /\ DOMAIN items' = {k \in DOMAIN items : ~PastExpiry(EntryOf(k), now)}
       /\ last'.removed = {k \in DOMAIN items : PastExpiry(EntryOf(k), now)}
       /\ ListKeys(ll', elems') =
            SelectSeq(ListKeys(ll, elems), LAMBDA k : ~PastExpiry(EntryOf(k), now))
       /\ \A k \in DOMAIN items' : elems'[items'[k]] = EntryOf(k)

\* C17: while a sweeper runs, an entry whose expiry has passed does not stay: a
\* pass removes exactly the expired entries from the map and the list, every
\* expired entry is eventually gone (or overwritten, or the sweeper stopped), and
\* a peek of a key that is gone reports a miss
ExpiredEntriesAreSwept ==
    /\ [][SweepRemovesTheExpired]_vars
    /\ [][\A k \in Keys \ DOMAIN items :
            (last'.op = "Get_Exclusive" /\ last'.key = k) => ~last'.ok]_vars
    /\ \A k \in Keys :
          (k \in DOMAIN items /\ PastExpiry(EntryOf(k), now) /\ Sweepers > 0)
          ~> (k \notin DOMAIN items \/ ~PastExpiry(EntryOf(k), now) \/ Sweepers = 0)

\* a pass has removed an entry stored with a positive TTL, and kept another
ExpiredEntriesAreSweptWitness ==
    /\ last.op = "cleanupExpired"
    /\ last.removed # {}
    /\ Len(ll) >= 1
    /\ Sweepers > 0


\* C20: StartCleanupDaemon, StopCleanupDaemon and Close leave the list, the map,
\* the entries (values and expiries), the recency history, the configuration and
\* the clock as they are; and on a cache whose flag is down (stopped or closed)
\* the methods work as on any other: Get removes an entry whose expiry has passed
\* and reports a miss, hits any other stored entry, Get_Exclusive reports what the
\* map holds, a store leaves its value under its key, Delete leaves its key out
LifecycleLeavesTheData ==
    [][/\ last'.op \in {"StartCleanupDaemon", "StopCleanupDaemon", "Close"}
            => UNCHANGED <<ll, items, elems, touched, capacity, defaultTTL, now>>
       /\ ~cleanupRunning
            => /\ \A k \in DOMAIN items :
                    /\ (last'.op = "Get" /\ last'.key = k)
                         => IF PastExpiry(EntryOf(k), now)
                            THEN ~last'.ok /\ k \notin DOMAIN items'
                            ELSE last'.ok /\ last'.value = EntryOf(k).value
                    /\ (last'.op = "Get_Exclusive" /\ last'.key = k)
                         => last'.ok /\ last'.value = EntryOf(k).value
               /\ last'.op = "set"
                    => /\ last'.key \in DOMAIN items'
                       /\ elems'[items'[last'.key]].value = last'.value
                       /\ elems'[items'[last'.key]].expiresAt = last'.expiresAt
               /\ last'.op = "Delete" => last'.key \notin DOMAIN items']_vars

\* Close has stopped the daemon of a cache that holds two entries, one of them
\* past its expiry, and both are still there
LifecycleLeavesTheDataWitness ==
    /\ last.op = "Close"
    /\ ~cleanupRunning
    /\ daemons.closed = 1
    /\ Len(ll) = 2
    /\ PastExpiry(elems[ll[2]], now)


\* C13: SetWithTTL with a negative ttlSeconds panics and changes nothing: list,
\* map, entries, recency history, configuration and daemon are as before the
\* call, so every later call finds the cache as if the call had not been made;
\* and no store is made by a call that panics (a store's record is not a panic)
NegativeTTLRejected ==
    [][/\ last'.op = "panic"
            => /\ last'.call = "SetWithTTL"
               /\ last'.ttlSeconds < 0
               /\ UNCHANGED <<ll, items, elems, touched, capacity, defaultTTL,
                              cleanupRunning, daemons, now>>
       /\ \A k \in Keys, v \in Values, ttl \in TTLArgs :
            (ttl < 0 /\ SetWithTTL(k, v, ttl, now))
            => last'.op = "panic" /\ last'.key = k]_vars

\* SetWithTTL with ttlSeconds -1 has panicked on a full cache of capacity 2, for a
\* key that is stored
NegativeTTLRejectedWitness ==
    /\ last.op = "panic"
    /\ last.ttlSeconds = -1
    /\ capacity = 2
    /\ Len(ll) = 2
    /\ last.key \in DOMAIN items


\* C11: SetWithTTL(k, v, t) with t > 0, the clock read at T, leaves expiry T + t
\* under k, whatever the default TTL and whether k was stored before (the old
\* expiry is replaced); an expiry stays as stored until the next store of its key;
\* and Get of an entry with such an expiry hits exactly while the clock is not
\* past it
PerEntryTTL ==
    [][/\ last'.op = "set"
            => \A ttl \in TTLs \ {0}, t0 \in ClockReads :
                  SetWithTTL(last'.key, last'.value, ttl, t0)
                  => elems'[items'[last'.key]].expiresAt = t0 + ttl
       /\ \A k \in DOMAIN items :
            /\ (k \in DOMAIN items' /\ ~(last'.op = "set" /\ last'.key = k))
                 => elems'[items'[k]].expiresAt = EntryOf(k).expiresAt
            /\ (last'.op = "Get" /\ last'.key = k /\ EntryOf(k).expiresAt # ZeroTime)
                 => (last'.ok <=> now <= EntryOf(k).expiresAt)]_vars

\* on a cache with default TTL 0, a store has replaced the expiry of a stored key
\* by one that lies a second ahead: a SetWithTTL with ttlSeconds 1
PerEntryTTLWitness ==
    /\ last.op = "set"
    /\ last.existed
    /\ defaultTTL = 0
    /\ last.expiresAt = now + 1
    /\ EntryOf(last.key).expiresAt = now + 1


\* C12: SetWithTTL(k, v, 0) leaves the zero time as the expiry of k; an entry
\* with the zero time is a hit for Get at any time, is kept by every pass of
\* cleanupExpired, and changes or leaves only by a store of its key, its eviction
\* as tail or a Delete of its key; and every stored expiry is the zero time or a
\* reading of the clock plus a TTL, which Get treats as expired once the clock is
\* past it
NoExpirySentinel ==
    /\ [](\A k \in DOMAIN items :
            EntryOf(k).expiresAt = ZeroTime \/ EntryOf(k).expiresAt \in 1..(MaxTime + MaxTTL))
    /\ [][/\ \A v \in Values :
               (last'.op = "set" /\ SetWithTTL(last'.key, v, 0, now))
               => elems'[items'[last'.key]].expiresAt = ZeroTime
          /\ \A k \in DOMAIN items :
               IF EntryOf(k).expiresAt = ZeroTime
               THEN /\ (last'.op = "Get" /\ last'.key = k)
                         => last'.ok /\ ~last'.expired /\ last'.value = EntryOf(k).value
                    /\ last'.op = "cleanupExpired" => k \notin last'.removed
                    /\ \/ k \in DOMAIN items' /\ elems'[items'[k]] = EntryOf(k)
                       \/ last'.op = "set" /\ last'.key = k
                       \/ last'.op = "set" /\ last'.evicted = k
                       \/ last'.op = "Delete" /\ last'.key = k
               ELSE (last'.op = "Get" /\ last'.key = k /\ now > EntryOf(k).expiresAt)
                         => ~last'.ok /\ last'.expired]_vars

\* at the last instant of the clock a pass of cleanupExpired has removed an
\* expired entry and kept an entry that carries the zero time
NoExpirySentinelWitness ==
    /\ last.op = "cleanupExpired"
    /\ last.removed # {}
    /\ now = MaxTime
    /\ \E k \in DOMAIN items : EntryOf(k).expiresAt = ZeroTime


\* ------------------------------------------------------- the abstract cache
\* the keys that are stored and whose expiry has not passed
LiveKeys == {k \in DOMAIN items : ~PastExpiry(EntryOf(k), now)}

\* the abstract cache: the live keys with their value and expiry
Abstract == [k \in LiveKeys |-> [value |-> EntryOf(k).value, expiresAt |-> EntryOf(k).expiresAt]]

AbsDrop(a, ks) == [k \in (DOMAIN a) \ ks |-> a[k]]
AbsPut(a, k, pair) == [x \in (DOMAIN a) \cup {k} |-> IF x = k THEN pair ELSE a[x]]
\* what is left of an abstract cache at time t
AbsAt(a, t) == AbsDrop(a, {k \in DOMAIN a : PastExpiry(a[k], t)})

\* the abstract cache after the step that leaves the call record r at time t: a
\* store puts its pair and drops the key it evicted, a Delete drops its key, the
\* clock drops what expires, and nothing else changes it
AbstractNext(r, t) ==
    IF r.op = "set"
    THEN AbsAt(AbsPut(AbsDrop(Abstract, {r.evicted}), r.key,
                      [value |-> r.value, expiresAt |-> r.expiresAt]), t)
    ELSE IF r.op = "Delete"
         THEN AbsDrop(Abstract, {r.key})
         ELSE AbsAt(Abstract, t)

\* nothing expired is stored: the map holds exactly the live keys
Swept == DOMAIN items = LiveKeys

\* C19: the cache refines the abstract one: every step changes the live keys and
\* their pairs as the abstract step does, a store evicts only the least recently
\* touched key, a pass of cleanupExpired leaves exactly the live keys in the map,
\* which stays so until the clock advances (or a store arrives with an expiry
\* already past), and then Get_Exclusive hits exactly the live keys: those stored
\* and since neither deleted, nor evicted, nor expired
LRUAndTTLCompose ==
    [][/\ Abstract' = AbstractNext(last', now')
       /\ (last'.op = "set" /\ last'.evicted # NoKey) => last'.evicted = touched[Len(touched)]
       /\ last'.op = "cleanupExpired" => Swept'
       /\ (Swept /\ now' = now
             /\ ~(last'.op = "set" /\ PastExpiry([expiresAt |-> last'.expiresAt], now)))
            => Swept'
       /\ (Swept /\ last'.op = "Get_Exclusive")
            => /\ last'.ok <=> last'.key \in DOMAIN Abstract
               /\ last'.ok => last'.value = Abstract[last'.key].value]_vars

\* in a cache of capacity 2 a pass has removed an expired entry at the last
\* instant of the clock and kept the one live entry
LRUAndTTLComposeWitness ==
    /\ last.op = "cleanupExpired"
    /\ Cardinality(last.removed) = 1
    /\ capacity = 2
    /\ now = MaxTime
    /\ Cardinality(LiveKeys) = 1
    /\ Swept


\* ------------------------------------------------------------- concurrency
\* a (value, expiry) pair as one store of the concurrent callers wrote it
Whole(entry) == (entry.expiresAt = ZeroTime) <=> (TagTTL(entry.value) = 0)

\* the goroutines that are inside a method
Inside == {p \in Procs : procs[p].pc # "idle"}

\* c.mu is held as a sync.RWMutex allows: one writer alone, or readers only, and
\* exactly the goroutines inside a method hold it, GetAll as a reader
MutualExclusion ==
    /\ Inside = mu.readers \cup (IF mu.writer = 0 THEN {} ELSE {mu.writer})
    /\ mu.writer # 0 => mu.readers = {}
    /\ \A p \in Inside : p \in mu.readers <=> procs[p].op = "GetAll"

\* what a reader can find: while no writer is inside, every entry is whole, map
\* and list hold the same entries, and every call that is inside has read only
\* what is stored now
Consistent ==
    /\ mu.writer = 0
         => /\ \A e \in DOMAIN elems : Whole(elems[e])
            /\ Cardinality(DOMAIN items) = Len(ll)
            /\ \A k \in DOMAIN items : items[k] \in Range(ll) /\ elems[items[k]].key = k
            /\ \A p \in Inside :
                  \A k \in DOMAIN procs[p].out : procs[p].out[k] = elems[items[k]].value
    /\ \A p \in Inside :
          (procs[p].pc = "return" /\ procs[p].ok)
          => /\ procs[p].value = elems[procs[p].element].value
             /\ procs[p].op = "Get"
                  => /\ procs[p].expiresAt = elems[procs[p].element].expiresAt
                     /\ Whole([value |-> procs[p].value, expiresAt |-> procs[p].expiresAt])

\* the list, the map and the entries change only by a step of the goroutine that
\* holds the write lock, and no other goroutine moves in that step
Isolation ==
    data' # data
    => /\ mu.writer # 0
       /\ procs'[mu.writer] # procs[mu.writer]
       /\ \A q \in Procs \ {mu.writer} : procs'[q] = procs[q]

\* C18: for every interleaving of the statements of concurrent calls, the lock
\* is held exclusively by a writing method, a read returns the value and expiry
\* of one stored pair, never parts of two, no reader sees an entry half written
\* or half linked, and the data change only inside the section of one call: each
\* call takes effect as a whole while it holds the lock
AtomicVisibility ==
    /\ [](MutualExclusion /\ Consistent)
    /\ [][Isolation]_vars

\* a store is between its two writes: the entry holds the new value with the old
\* expiry, while the other goroutines are kept out
AtomicVisibilityWitness ==
    \E p \in Procs :
        /\ At(p, "set", "writeExpiry")
        /\ ~Whole(elems[procs[p].element])
        /\ mu.writer = p
        /\ Len(ll) = 2


\* C21 as stated: NewLRUTTL given a capacity <= 0, a default TTL < 0 or an interval
\* <= 0 fails and leaves no cache and no cleanup goroutine; a cache that came
\* back has capacity > 0 and interval > 0; and on such a cache no store ever
\* fails with "capacity is 0"
ConstructionValidated ==
    /\ last.op = "NewLRUTTL"
         => /\ last.ok <=> OptionsAccept(last.capacity, last.defaultTTL, last.cleanupInterval)
            /\ ~last.ok => NumDaemons = 0 /\ items = <<>> /\ ll = <<>>
            /\ last.ok => capacity > 0 /\ last.cleanupInterval > 0
    /\ ~(last.op = "panic" /\ last.call = "setWithTTLInternal")


\* ------------------------------------------------------------------ proxy
\* request r is handed to ServeHTTP in this step
Arrives(r) == reqs[r].pc = "new" /\ reqs'[r].pc # "new"

\* the cache holds, under the URL of first, the response first stored, unexpired
HoldsLive(first) ==
    LET url == reqs[first].url
    IN /\ reqs[first].stored
       /\ url \in DOMAIN items
       /\ elems[items[url]].value = first
       /\ ~isExpired(elems[items[url]])

\* a request served by replay has not called the upstream
ReplayedWithoutUpstream ==
    \A r \in Reqs : reqs[r].found # 0 => reqs[r].upstream = 0 /\ reqs[r].pc \in {"replay", "done"}

\* C22: with a cache attached, a GET that arrives after a GET of the same URL has
\* finished and stored its response, while that entry is in the cache and not
\* expired, is served by replay without an upstream call, and the first GET
\* called the upstream exactly once
OneUpstreamRequest ==
    [][/\ \A first, second \in Reqs :
            (/\ Arrives(second)
             /\ attached
             /\ reqs'[second].method = "GET"
             /\ reqs'[second].url = reqs[first].url
             /\ reqs[first].pc = "done"
             /\ reqs[first].method = "GET"
             /\ HoldsLive(first))
            => /\ reqs[first].upstream = 1
               /\ reqs'[second].pc = "replay"
               /\ reqs'[second].found = first
               /\ reqs'[second].upstream = 0
       /\ ReplayedWithoutUpstream']_vars

OneUpstreamRequestWitness ==
    \E first, second \in Reqs :
        /\ first \in reqs[second].after
        /\ reqs[second].pc = "done"
        /\ reqs[second].found = first
        /\ reqs[second].upstream = 0
        /\ reqs[first].upstream = 1

\* what the client of a request got: status, header, body
Received(r) == [status |-> reqs[r].status, header |-> reqs[r].sent, body |-> reqs[r].body]

\* the CachedResponse objects are not written once they are in the cache
StoredStaysAsItIs ==
    \A r \in Reqs : reqs[r].stored => reqs'[r].cached = reqs[r].cached

\* what a replay hands out is what the CachedResponse holds
ReplayOfTheStored ==
    \A hit \in Reqs :
        (reqs[hit].pc = "done" /\ reqs[hit].found # 0)
        => LET cachedResp == reqs[reqs[hit].found].cached
           IN /\ reqs[hit].status = cachedResp.Status
              /\ reqs[hit].sent = cachedResp.Header
              /\ reqs[hit].body \in {cachedResp.Body, ""}

\* C23 as stated: the client of a hit receives the status, the header and the
\* body that were written to the client of the miss that filled the entry (a
\* body is compared where both writes went through), no upstream request is
\* built or sent for the hit, and the stored CachedResponse is not modified
ReplayFidelity ==
    [][/\ StoredStaysAsItIs
       /\ ReplayOfTheStored'
       /\ \A hit \in Reqs :
            LET miss == reqs'[hit].found
            IN (reqs'[hit].pc = "done" /\ miss # 0)
               => /\ reqs'[hit].upstream = 0
                  /\ reqs'[hit].out = NoHeader
                  /\ reqs'[miss].pc = "done"
                       => /\ reqs'[hit].status = reqs'[miss].status
                          /\ reqs'[hit].sent = reqs'[miss].sent
                          /\ (reqs'[hit].body # "" /\ reqs'[miss].body # "")
                               => reqs'[hit].body = reqs'[miss].body]_vars

\* the first positive max-age or s-maxage among the Cache-Control fields of a
\* response, 0 when it carries none
RECURSIVE FirstMaxAge(_)
FirstMaxAge(values) ==
    IF values = <<>> THEN 0
    ELSE LET n == ScanDirectives(Directives(Head(values)))
         IN IF n > 0 THEN n ELSE FirstMaxAge(Tail(values))

MaxAgeCarried(h) == IF "Cache-Control" \in DOMAIN h THEN FirstMaxAge(h["Cache-Control"]) ELSE 0

\* request r stores its response in this step
Stores(r) == reqs[r].pc = "read" /\ reqs'[r].stored

\* the entry the cache holds for a URL
EntryFor(url) == elems[items[url]]

\* the cache holds, under the URL of first, the entry first stored
Holds(first) ==
    /\ reqs[first].stored
    /\ reqs[first].url \in DOMAIN items
    /\ EntryFor(reqs[first].url).value = first

\* C24 as stated: a cacheable miss whose response carries max-age=N or
\* s-maxage=N, N > 0, is stored to expire N seconds after the store, any other
\* with the default TTL; a GET of the URL that finds the entry up to N seconds
\* after the store is replayed without an upstream call, and one that finds it
\* later than that goes upstream
CacheControlDrivesTTL ==
    [][/\ \A r \in Reqs :
            Stores(r)
            => LET N == MaxAgeCarried(reqs'[r].cached.Header)
                   entry == EntryFor(reqs[r].url)'
               IN /\ entry.value = r
                  /\ entry.expiresAt = now + (IF N > 0 THEN N ELSE defaultTTL)
       /\ \A first, second \in Reqs :
            LET N == MaxAgeCarried(reqs[first].cached.Header)
                age == now - reqs[first].cached.CachedAt
            IN (/\ Arrives(second)
                /\ attached
                /\ reqs'[second].method = "GET"
                /\ reqs'[second].url = reqs[first].url
                /\ Holds(first)
                /\ N > 0)
               => IF age <= N
                  THEN /\ reqs'[second].pc = "replay"
                       /\ reqs'[second].found = first
                       /\ reqs'[second].upstream = 0
                  ELSE reqs'[second].pc = "send"]_vars

\* C25: a request whose method is not GET, and any request when no cache is
\* attached, calls no cache method in any of its steps (the cache and the
\* recency history stay as they are), is never replayed, stores nothing and is
\* forwarded to the upstream
NonGetBypass ==
    [][\A r \in Reqs :
         (reqs'[r] # reqs[r] /\ (reqs'[r].method # "GET" \/ ~attached))
         => /\ UNCHANGED <<ll, items, elems, touched>>
            /\ last' = None
            /\ reqs'[r].found = 0
            /\ ~reqs'[r].stored
            /\ Arrives(r) => reqs'[r].pc = "send"
            /\ reqs'[r].pc = "done" => reqs'[r].upstream = 1]_vars

NonGetBypassWitness ==
    \E r, first \in Reqs :
        /\ reqs[r].method = "POST"
        /\ reqs[r].pc = "done"
        /\ reqs[r].url = reqs[first].url
        /\ first \in reqs[r].after
        /\ HoldsLive(first)

\* a field name that is one of the hop-by-hop names, in whatever letter case
HopByHop(name) == CanonicalHeaderKey(name) \in Range(hopByHopHeaders)
FreeOfHopByHop(h) == \A name \in DOMAIN h : ~HopByHop(name)
CarriesHopByHop(lines) == \E i \in 1..Len(lines) : HopByHop(lines[i][1])

\* C26: no hop-by-hop field is in the header of an outbound request, in
\* w.Header() or the head sent to a client on a miss or a replay, or in a
\* stored CachedResponse
HopByHopStripped ==
    \A r \in Reqs :
        /\ reqs[r].pc = "send"
             => FreeOfHopByHop(buildUpstreamRequest(reqs[r].lines, reqs[r].remote))
        /\ FreeOfHopByHop(reqs[r].out)
        /\ FreeOfHopByHop(reqs[r].header)
        /\ FreeOfHopByHop(reqs[r].sent)
        /\ FreeOfHopByHop(reqs[r].cached.Header)

HopByHopStrippedWitness ==
    \E hit, miss \in Reqs :
        /\ reqs[hit].pc = "done"
        /\ reqs[hit].found = miss
        /\ reqs[hit].sent # NoHeader
        /\ reqs[miss].committed
        /\ CarriesHopByHop(reqs[miss].lines)
        /\ CarriesHopByHop(reqs[miss].resp.lines)
        /\ reqs[miss].out # NoHeader

\* the head http.Error sends: nothing but its own two fields
ErrorHead == DOMAIN ErrorHeader(NoHeader)

\* request r fails in client.Do in this step
SendFails(r) == reqs[r].pc = "send" /\ reqs'[r].pc = "done"

\* no request other than r has stored a response under the URL of r
NoOtherStored(r) ==
    \A q \in Reqs : (q # r /\ reqs[q].stored) => reqs[q].url # reqs[r].url

\* C27: when client.Do fails the client gets 502 "upstream error" with no field
\* of an upstream response, the cache stays as the lookup left it and nothing
\* is stored for the request; a GET of the same URL that arrives afterwards
\* goes upstream
TransportFailure ==
    [][/\ \A r \in Reqs :
            SendFails(r)
            => /\ reqs'[r].status = 502
               /\ reqs'[r].body = "upstream error"
               /\ DOMAIN reqs'[r].sent = ErrorHead
               /\ reqs'[r].upstream = 1
               /\ ~reqs'[r].stored
               /\ UNCHANGED <<ll, items, elems, touched>>
       /\ \A first, second \in Reqs :
            (/\ Arrives(second)
             /\ reqs[first].pc = "done"
             /\ reqs[first].status = 502
             /\ reqs[first].method = "GET"
             /\ reqs'[second].method = "GET"
             /\ reqs'[second].url = reqs[first].url
             /\ NoOtherStored(first))
            => reqs'[second].pc = "send"]_vars

TransportFailureWitness ==
    \E first, second \in Reqs :
        /\ attached
        /\ reqs[first].status = 502
        /\ reqs[first].method = "GET"
        /\ first \in reqs[second].after
        /\ reqs[second].method = "GET"
        /\ reqs[second].url = reqs[first].url
        /\ reqs[second].upstream = 1

\* request r fails in io.ReadAll in this step
ReadFails(r) == reqs[r].pc = "read" /\ reqs'[r].pc = "done"

\* C28: when reading the upstream body fails the client gets 500 "error reading
\* response", not the status, the header fields or the body of the upstream
\* response; nothing is stored for the request and the cache stays as it was;
\* a GET of the same URL that arrives afterwards goes upstream
BodyReadFailure ==
    [][/\ \A r \in Reqs :
            ReadFails(r)
            => /\ reqs'[r].status = 500
               /\ reqs'[r].body = "error reading response"
               /\ DOMAIN reqs'[r].sent = ErrorHead
               /\ reqs'[r].upstream = 1
               /\ ~reqs'[r].stored
               /\ UNCHANGED <<ll, items, elems, touched>>
       /\ \A first, second \in Reqs :
            (/\ Arrives(second)
             /\ reqs[first].pc = "done"
             /\ reqs[first].status = 500
             /\ reqs[first].method = "GET"
             /\ reqs'[second].method = "GET"
             /\ reqs'[second].url = reqs[first].url
             /\ NoOtherStored(first))
            => reqs'[second].pc = "send"]_vars

BodyReadFailureWitness ==
    \E first, second \in Reqs :
        /\ attached
        /\ reqs[first].status = 500
        /\ reqs[first].method = "GET"
        /\ first \in reqs[second].after
        /\ reqs[second].method = "GET"
        /\ reqs[second].url = reqs[first].url
        /\ reqs[second].upstream = 1

\* the head of request r goes out in this step
HeadGoesOut(r) == ~reqs[r].committed /\ reqs'[r].committed

\* request r is on the miss path behind the store: WriteHeader, Write
AtWriteOut(r) == reqs[r].pc \in {"head", "body"}

\* C29 as stated: for a request that reaches w.WriteHeader the head goes out
\* once, with the status of the upstream response and with every field of the
\* stripped upstream header, whatever the flush goroutine does in between, and
\* the buffered body follows it
StatusOnMiss ==
    [][\A r \in Reqs :
         AtWriteOut(r)
         => /\ HeadGoesOut(r)
                 => /\ reqs'[r].status = reqs[r].resp.status
                    /\ reqs'[r].sent = removeHopByHopHeaders(ReadHeader(reqs[r].resp.lines))
            /\ reqs[r].committed
                 => reqs'[r].status = reqs[r].status /\ reqs'[r].sent = reqs[r].sent
            /\ reqs'[r].pc = "done"
                 => reqs[r].committed /\ reqs'[r].body \in {reqs[r].resp.body, ""}]_vars

\* the context of request r is cancelled in this step
Cancelled(r) == ~reqs[r].cancelled /\ reqs'[r].cancelled

\* C30 as stated: when the context of a request is cancelled while client.Do or
\* the body read is pending, the upstream I/O is given up, the request ends,
\* nothing is stored, and nothing is written to the client: no status, no
\* header, no body
CancellationIsSilent ==
    [][\A r \in Reqs :
         Cancelled(r)
         => /\ reqs[r].pc \in {"send", "read"}
            /\ reqs'[r].pc = "done"
            /\ ~reqs'[r].stored
            /\ UNCHANGED <<ll, items, elems, touched>>
            /\ ~reqs'[r].committed
            /\ reqs'[r].status = 0
            /\ reqs'[r].sent = NoHeader
            /\ reqs'[r].body = ""]_vars

\* ... what holds of it: the I/O is given up, the request ends, nothing is stored
CancellationStoresNothing ==
    [][\A r \in Reqs :
         Cancelled(r)
         => /\ reqs[r].pc \in {"send", "read"}
            /\ reqs'[r].pc = "done"
            /\ ~reqs'[r].stored
            /\ UNCHANGED <<ll, items, elems, touched>>]_vars

\* http.ParseTime of an Expires value, in seconds of the model's clock
ParseTime(text) ==
    CASE text = "Thu, 01 Jan 1970 00:00:03 GMT" -> [t |-> 3, err |-> FALSE]
      [] OTHER -> [t |-> ZeroTime, err |-> TRUE]

\* the time the Expires field of a header gives, ZeroTime when it gives none
ExpiresCarried(h) ==
    IF "Expires" \in DOMAIN h /\ ~ParseTime(h["Expires"][1]).err
    THEN ParseTime(h["Expires"][1]).t
    ELSE ZeroTime

\* C31 as stated: a cacheable response without a positive max-age or s-maxage
\* that carries a parseable Expires is stored to expire at that time, and only
\* one with neither at now + default TTL; a GET of the URL that finds the entry
\* up to that time is replayed, a later one goes upstream
ExpiresFallback ==
    [][/\ \A r \in Reqs :
            (Stores(r) /\ MaxAgeCarried(reqs'[r].cached.Header) = 0)
            => LET expires == ExpiresCarried(reqs'[r].cached.Header)
                   entry == EntryFor(reqs[r].url)'
               IN entry.expiresAt = IF expires # ZeroTime THEN expires ELSE now + defaultTTL
       /\ \A first, second \in Reqs :
            LET expires == ExpiresCarried(reqs[first].cached.Header)
            IN (/\ Arrives(second)
                /\ attached
                /\ reqs'[second].method = "GET"
                /\ reqs'[second].url = reqs[first].url
                /\ Holds(first)
                /\ MaxAgeCarried(reqs[first].cached.Header) = 0
                /\ expires # ZeroTime)
               => IF now <= expires
                  THEN reqs'[second].pc = "replay" /\ reqs'[second].found = first
                  ELSE reqs'[second].pc = "send"]_vars

\* C32 as stated: when no host can be taken from RemoteAddr the outbound request
\* has no X-Forwarded-For at all, whatever the inbound request carried, and the
\* request is forwarded all the same; when a host can be taken the outbound
\* X-Forwarded-For is exactly that host
ForwardedForOmitted ==
    [][\A r \in Reqs :
         (reqs[r].pc = "send" /\ reqs'[r] # reqs[r])
         => LET outReq == buildUpstreamRequest(reqs[r].lines, reqs[r].remote)
                s == SplitHostPort(reqs[r].remote)
            IN /\ reqs'[r].upstream = 1
               /\ reqs'[r].status \notin {500}
               /\ IF s.err
                  THEN "X-Forwarded-For" \notin DOMAIN outReq
                  ELSE outReq["X-Forwarded-For"] = <<s.host>>]_vars

\* ... what holds of it: the header is what the inbound request carried when no
\* host can be taken, and exactly the host otherwise
ForwardedForSetOnSuccess ==
    [][\A r \in Reqs :
         (reqs[r].pc = "send" /\ reqs'[r] # reqs[r])
         => LET outReq == buildUpstreamRequest(reqs[r].lines, reqs[r].remote)
                inbound == ReadHeader(reqs[r].lines)
                s == SplitHostPort(reqs[r].remote)
            IN /\ reqs'[r].upstream = 1
               /\ reqs'[r].status \notin {500}
               /\ IF s.err
                  THEN IF "X-Forwarded-For" \in DOMAIN inbound
                       THEN outReq["X-Forwarded-For"] = inbound["X-Forwarded-For"]
                       ELSE "X-Forwarded-For" \notin DOMAIN outReq
                  ELSE outReq["X-Forwarded-For"] = <<s.host>>]_vars

\* C33 as stated: on a cache built with WithItemsMap(m) the keys of m are there
\* for Get_Exclusive, and map and list agree and respect the capacity, right
\* after construction and after every later call
ImportedMapIsConsistent ==
    Built
    => /\ Cardinality(DOMAIN items) = Len(ll)
       /\ \A k \in DOMAIN items : items[k] \in Range(ll)
       /\ Cardinality(DOMAIN items) <= capacity
       /\ last.op = "NewLRUTTL" => last.imported = DOMAIN items


\* -------------------------------------------------------- one pass of the sweep
\* the goroutines that are inside cleanupExpired
Sweeping == {p \in Procs : procs[p].op = "cleanupExpired" /\ procs[p].pc # "idle"}

\* s is the end of the sequence l
IsSuffix(s, l) == Len(s) <= Len(l) /\ s = SubSeq(l, Len(l) - Len(s) + 1, Len(l))

\* while a pass runs it holds the write lock and is alone inside the cache; what
\* it has still to look at is the end of the list; and between two turns of its
\* loop the map and the list hold the same entries
SweepHoldsTheLock ==
    \A p \in Sweeping :
        /\ mu = [writer |-> p, readers |-> {}]
        /\ Inside = {p}
        /\ procs[p].pc = "walk"
             => /\ IsSuffix(procs[p].rest, ll)
                /\ Cardinality(DOMAIN items) = Len(ll)
                /\ \A k \in DOMAIN items : items[k] \in Range(ll) /\ elems[items[k]].key = k
        /\ procs[p].pc = "walkDelete"
             => /\ IsSuffix(Tail(procs[p].rest), ll)
                /\ procs[p].element = Head(procs[p].rest)
                /\ procs[p].element \notin Range(ll)
                /\ items[elems[procs[p].element].key] = procs[p].element
        /\ procs[p].pc = "return" => procs[p].rest = <<>>

\* the steps of a pass: it starts with the whole list before it, each turn takes
\* the next element, unlinks it and deletes its key if and only if its expiry is
\* set and has passed, leaves every other element where it is, and the pass ends
\* only when nothing is left to look at; nothing else changes the data or moves
\* while the pass is inside
SweepTurn ==
    \A p \in Sweeping :
        LET f == procs[p]
            current == Head(f.rest)
        IN /\ \A q \in Procs \ {p} : procs'[q] = procs[q]
           /\ \A e \in DOMAIN elems' : e \in DOMAIN elems /\ elems'[e] = elems[e]
           /\ procs'[p] = f => UNCHANGED data
           /\ (procs'[p] # f /\ f.pc = "lookup")
                => procs'[p].pc = "walk" /\ procs'[p].rest = ll /\ UNCHANGED data
           /\ (procs'[p] # f /\ f.pc = "walk" /\ f.rest # <<>>)
                => IF PastExpiry(elems[current], now)
                   THEN /\ ll' = SelectSeq(ll, LAMBDA e : e # current)
                        /\ Len(ll') = Len(ll) - 1
                        /\ items' = items
                        /\ procs'[p].pc = "walkDelete"
                   ELSE /\ UNCHANGED data
                        /\ procs'[p].pc = "walk"
                        /\ procs'[p].rest = Tail(f.rest)
           /\ (procs'[p] # f /\ f.pc = "walk" /\ f.rest = <<>>)
                => procs'[p].pc = "return" /\ UNCHANGED data
           /\ (procs'[p] # f /\ f.pc = "walkDelete")
                => /\ DOMAIN items' = DOMAIN items \ {elems[current].key}
                   /\ \A k \in DOMAIN items' : items'[k] = items[k]
                   /\ ll' = ll
                   /\ current \notin DOMAIN elems'
                   /\ procs'[p].pc = "walk"
                   /\ procs'[p].rest = Tail(f.rest)
           /\ (procs'[p] # f /\ f.pc = "return")
                => procs'[p].pc = "idle" /\ mu'.writer = 0 /\ UNCHANGED data

\* C34: one pass of cleanupExpired runs under the exclusive lock with no other
\* call and no other pass inside; it looks at every element the list held, removes
\* from the list and the map exactly those whose expiry is set and has passed,
\* and leaves the others in the order they had
SweepPassIsExact ==
    /\ []SweepHoldsTheLock
    /\ [][SweepTurn]_vars

\* a pass has unlinked an expired entry behind one that stays, and is about to
\* delete its key, while the other goroutine waits outside
SweepPassIsExactWitness ==
    \E p \in Sweeping :
        /\ procs[p].pc = "walkDelete"
        /\ Len(ll) >= 1
        /\ Tail(procs[p].rest) = <<>>
        /\ \E e \in Range(ll) : elems[e].expiresAt # ZeroTime /\ ~PastExpiry(elems[e], now)


\* ---------------------------------------------------------- the flush goroutine
\* C35 as stated: the goroutine started before WriteHeader calls Flush at most
\* once, is gone once it has flushed or seen done closed, and never calls Flush
\* on the ResponseWriter after ServeHTTP has closed done and returned
FlushStaysInsideRequest ==
    \A r \in Reqs :
        /\ reqs[r].flushes <= 1
        /\ reqs[r].flushes = 1 => reqs[r].flusher = "exit"
        /\ ~reqs[r].lateFlush

\* ... what holds of it: one Flush at most, after which the goroutine is gone; a
\* goroutine exists only for a request that went as far as line 128; and once
\* done is closed the goroutine can always leave its select
FlushAtMostOnce ==
    \A r \in Reqs :
        /\ reqs[r].flushes <= 1
        /\ reqs[r].flushes = 1 => reqs[r].flusher = "exit"
        /\ reqs[r].flusher = "select" => reqs[r].pc \in {"head", "body", "done"}
        /\ (reqs[r].flusher = "select" /\ reqs[r].pc = "done") => ENABLED FlushReturn(r)


\* ------------------------------------------------------ concurrent identical misses
\* a GET that was not served by replay and has stored its response
MissedAndStored(r) == reqs[r].method = "GET" /\ reqs[r].found = 0 /\ reqs[r].stored

\* the CachedResponse r stores in this step is, as a whole, the response r
\* has fetched: its status, its header without the hop-by-hop fields, its body
OneWholeResponse(r) ==
    /\ reqs[r].resp \in Responses
    /\ reqs'[r].cached.Status = reqs[r].resp.status
    /\ reqs'[r].cached.Header = removeHopByHopHeaders(ReadHeader(reqs[r].resp.lines))
    /\ reqs'[r].cached.Body = reqs[r].resp.body

\* the list holds one element for the URL, the one the map refers to
OneEntryFor(url) ==
    /\ url \in DOMAIN items
    /\ {e \in Range(ll) : elems[e].key = url} = {items[url]}
    /\ Len(SelectSeq(ll, LAMBDA e : e = items[url])) = 1

\* every entry of the cache is the response a GET of that URL stored
EntriesAreStoredResponses ==
    \A url \in DOMAIN items :
        LET v == EntryFor(url).value
        IN v \in Reqs /\ MissedAndStored(v) /\ reqs[v].url = url /\ OneEntryFor(url)

\* a GET that finds no entry goes to the upstream, whatever the other requests
\* are doing; a store leaves one entry for the URL, which is the response of the
\* request that stores, whole, and is not written afterwards
MissesAreNotCoalesced ==
    /\ \A r \in Reqs :
          (Arrives(r) /\ attached /\ reqs'[r].method = "GET" /\ reqs'[r].url \notin DOMAIN items)
          => reqs'[r].pc = "send" /\ reqs'[r].found = 0
    /\ \A r \in Reqs :
          Stores(r) => /\ OneEntryFor(reqs[r].url)'
                       /\ EntryFor(reqs[r].url)'.value = r
                       /\ OneWholeResponse(r)
    /\ StoredStaysAsItIs
    /\ \A r \in Reqs :
          (MissedAndStored(r) /\ reqs[r].pc = "done")' => reqs'[r].upstream = 1
    /\ EntriesAreStoredResponses'

\* C36 as stated: of several GETs of one URL on a cold cache every one that
\* misses calls the upstream itself, its client gets the status, header and body
\* that request fetched (the body where the write went through), and the cache
\* holds one entry for the URL, the whole response of the request that stored last
ConcurrentMisses ==
    [][/\ MissesAreNotCoalesced
       /\ \A r \in Reqs :
            (MissedAndStored(r) /\ reqs[r].pc = "done")'
            => /\ reqs'[r].status = reqs'[r].cached.Status
               /\ reqs'[r].sent = reqs'[r].cached.Header
               /\ reqs'[r].body \in {reqs'[r].cached.Body, ""}]_vars

\* ... what holds of it: the same, but for the status, which is 200 when the
\* flush got ahead of WriteHeader
ConcurrentMissesButStatus ==
    [][/\ MissesAreNotCoalesced
       /\ \A r \in Reqs :
            (MissedAndStored(r) /\ reqs[r].pc = "done")'
            => /\ reqs'[r].status \in {reqs'[r].cached.Status, 200}
               /\ reqs'[r].sent = reqs'[r].cached.Header
               /\ reqs'[r].body \in {reqs'[r].cached.Body, ""}]_vars

\* two GETs of one URL were inside ServeHTTP together, both missed, both stored
\* different responses, and the cache holds the one stored last
ConcurrentMissesSeen ==
    \E a, b \in Reqs :
        /\ a # b
        /\ MissedAndStored(a) /\ MissedAndStored(b)
        /\ reqs[a].url = reqs[b].url
        /\ reqs[a].pc = "done" /\ reqs[b].pc = "done"
        /\ a \notin reqs[b].after /\ b \notin reqs[a].after
        /\ reqs[a].cached.Body # reqs[b].cached.Body
        /\ reqs[a].url \in DOMAIN items


\* --------------------------------------------------- store and write to the client
\* C37: a GET that missed stores its response before anything of it is written
\* to the client; the write to the client, failed or not, leaves the cache as it
\* is, so the entry is there afterwards; and a GET of the same URL that arrives
\* while the entry is there and has not expired is served by replay, also when
\* the write of the first failed or has not happened yet
StorePrecedesClientWrite ==
    [][/\ \A r \in Reqs :
            /\ Stores(r)
                 => /\ ~reqs[r].committed /\ reqs[r].body = "" /\ reqs[r].flusher = "none"
                    /\ Holds(r)'
            /\ (AtWriteOut(r) /\ reqs[r].method = "GET" /\ attached) => reqs[r].stored
            /\ (AtWriteOut(r) /\ reqs'[r] # reqs[r])
                 => /\ UNCHANGED <<ll, items, elems>>
                    /\ reqs'[r].stored = reqs[r].stored
       /\ \A first, second \in Reqs :
            (/\ Arrives(second)
             /\ attached
             /\ reqs'[second].method = "GET"
             /\ reqs'[second].url = reqs[first].url
             /\ reqs[first].found = 0
             /\ HoldsLive(first)
             /\ \/ reqs[first].pc = "done" /\ reqs[first].body = ""
                \/ AtWriteOut(first))
            => /\ reqs'[second].pc = "replay"
               /\ reqs'[second].found = first
               /\ reqs'[second].upstream = 0]_vars

\* the write of the body to the first client failed, and a GET of the same URL
\* got the stored response
StorePrecedesClientWriteWitness ==
    \E first, second \in Reqs :
        /\ reqs[first].pc = "done" /\ reqs[first].found = 0
        /\ reqs[first].committed /\ reqs[first].body = ""
        /\ reqs[first].status = reqs[first].cached.Status
        /\ reqs[second].pc = "done" /\ reqs[second].found = first
        /\ reqs[second].body = reqs[first].cached.Body
        /\ Holds(first)

\* a GET has been served from the cache while the first client has got nothing
ServedBeforeFirstWrite ==
    \E first, second \in Reqs :
        /\ reqs[first].pc = "head" /\ ~reqs[first].committed
        /\ reqs[second].pc = "done" /\ reqs[second].found = first
        /\ reqs[second].body = reqs[first].cached.Body


\* ------------------------------------------------------------------ no deadlock
\* the goroutines that hold c.mu or are about to release it
Holding == {p \in Procs : procs[p].pc \in {"in", "return", "panic"}}

\* c.mu is held by exactly the calls that are between their Lock and their
\* deferred Unlock, or by a sweeper pass; a goroutine that is in no call, because
\* its call returned or panicked, holds nothing
LockIsHeldInside ==
    /\ mu.readers = {p \in Holding : LockOf(procs[p].op) = "RLock"}
    /\ mu.writer \in {0, SweeperId} => {p \in Holding : LockOf(procs[p].op) = "Lock"} = {}
    /\ mu.writer \in Procs
         => /\ Holding = {mu.writer}
            /\ LockOf(procs[mu.writer].op) = "Lock"
    /\ mu.writer # 0 => mu.readers = {}
    /\ mu.writer = SweeperId => daemons.sweep > 0

\* a call that holds the lock never waits: its body can run, whatever the
\* sweeper goroutines are doing, and so can its unlock
HolderCanRun ==
    \A p \in Procs :
        /\ procs[p].pc = "in" => ENABLED LockBody(p)
        /\ procs[p].pc \in {"return", "panic"} => ENABLED LockLeave(p)

\* C38: every call that waits for c.mu gets it, runs and releases it, also when
\* its body panics; a sweeper pass that waits for the lock gets it and releases
\* it; the lock is held only inside calls; and a call that holds the lock,
\* StartCleanupDaemon and StopCleanupDaemon included, never waits for anything
NoDeadlock ==
    /\ [](LockIsHeldInside /\ HolderCanRun)
    /\ \A p \in Procs : (procs[p].pc = "wait") ~> (procs[p].pc = "idle")
    /\ (daemons.sweep > 0) ~> (daemons.sweep = 0 /\ mu.writer # SweeperId)

\* a store has panicked under the lock ("capacity is 0") while the other
\* goroutine waits for the lock and a sweeper pass waits for it too
NoDeadlockWitness ==
    \E p, q \in Procs :
        /\ procs[p].pc = "panic" /\ mu.writer = p
        /\ procs[q].pc = "wait"
        /\ daemons.sweep > 0


\* ------------------------------------------------------------- stopping twice
\* C39: StopCleanupDaemon or Close on a cache whose running flag is false, as
\* after an earlier stop or when no sweeper was started, does nothing: no channel
\* is closed, no goroutine is told to stop, nothing panics; after every stop the
\* flag is false; and a StartCleanupDaemon that follows gets a goroutine that
\* waits on the open channel
StopIsIdempotent ==
    [][/\ (last'.op \in {"StopCleanupDaemon", "Close"} /\ ~cleanupRunning)
            => UNCHANGED <<config, data, daemon, now, touched>>
       /\ last'.op \in {"StopCleanupDaemon", "Close"}
            => /\ ~cleanupRunning'
               /\ daemons'.select = 0 \/ daemons' = daemons
               /\ daemons'.closed + daemons'.select = daemons.closed + daemons.select
       /\ last'.op = "StartCleanupDaemon"
            => /\ daemons'.select = daemons.select + 1
               /\ daemons'.closed = daemons.closed
       /\ last'.op # "panic"]_vars

\* a stop was called with no sweeper goroutine left and the flag false
StopIsIdempotentWitness ==
    /\ last.op \in {"StopCleanupDaemon", "Close"}
    /\ NumDaemons = 0
    /\ ~cleanupRunning


\* ------------------------------------------------------------ TTL in the future
\* C40 as stated: for every ttlSeconds > 0 given to SetWithTTL, those parsed from
\* Cache-Control included, the duration ttlSeconds x 1 second is positive and the
\* expiry lies after the time of the store and is not the zero time
PositiveTTLInFuture ==
    last.op = "SetWithTTL"
    => /\ last.ttlSeconds > 0
       /\ last.duration > 0
       /\ last.expiresAt > last.t0
       /\ last.expiresAt # ZeroTime

\* ... what holds of it: for the ttlSeconds whose duration fits the integer, the
\* expiry is ttlSeconds seconds after the store, as TTLExpiry has it
PositiveTTLInFutureInRange ==
    (last.op = "SetWithTTL" /\ last.ttlSeconds * Second <= MaxInt)
    => /\ last.ttlSeconds > 0
       /\ last.duration = last.ttlSeconds * Second
       /\ last.expiresAt = TTLExpiry(last.ttlSeconds, last.t0 \div Second) * Second
       /\ last.expiresAt > last.t0
       /\ last.expiresAt # ZeroTime

====
